---- MODULE Spec2Model ----
(***************************************************************************)
(* The Local Broker of opencode-browser (src/unnamed/part_001): sessions   *)
(* (plugins) and the native host connect over one unix socket; the broker  *)
(* forwards tool requests to the native host, matches responses by call id *)
(* and keeps a per-tab ownership table.                                    *)
(*                                                                         *)
(* The broker is single threaded: every socket event (a parsed line, a     *)
(* close, a timer) runs to completion together with the promise            *)
(* continuations it settles, so each action below is one event handler     *)
(* plus the microtasks it schedules.  Handlers are written as operators    *)
(* from a broker state record and the event's input to the new state and   *)
(* the list of lines written (`out`), in the order they are written.       *)
(***************************************************************************)
EXTENDS Integers, Sequences, FiniteSets, TLC

\* ---------------------------------------------------------------- bounds
MaxCalls == 2        \* cap on nextExtId (the code's counter is unbounded)
MaxReqId == 2        \* request ids a client uses are 1..MaxReqId
MaxBuffer == 2       \* pieces of text a connection may leave unfinished

\* ------------------------------------------------------ universe of inputs
Conns == {"c1", "c2", "c3"}   \* sockets the server can have accepted
Sessions == {"A", "B"}        \* session identifiers sent in hello
Tabs == {1, 2}                \* numeric tab ids
Clock == {0}                  \* readings of nowIso()

Null == "null"                \* JS null / undefined (host, sessionId, role data)
Dead == "dead"                \* reference to a socket whose connection has closed
NoTab == -1                   \* a tabId that is not a number (undefined)
ReqIds == 1..MaxReqId
Tools == {"click", "get_tabs"}
BridgeErrors == {"boom"}      \* message.error of a tool_response

VARIABLES
    clients,     \* socket -> [status, role, sessionId]   (part_001:50, 249)
    host,        \* the native host's socket, or Null      (part_001:46)
    nextExtId,   \* last call id handed out                (part_001:47)
    extPending,  \* call id -> the awaiting continuation   (part_001:48)
    claims,      \* tabId -> [sessionId, claimedAt]        (part_001:53)
    hist,        \* history, per pending call id: [excused, freed] (see below)
    buffer       \* socket -> the text its parser holds       (part_001:19)

vars == <<clients, host, nextExtId, extPending, claims, hist, buffer>>

\* The broker's own state as one record, the argument of the handlers.
St == [clients |-> clients, host |-> host, nextExtId |-> nextExtId,
       extPending |-> extPending, claims |-> claims]

\* ------------------------------------------------------------- error texts
Err(kind, tabId, owner) == [kind |-> kind, tabId |-> tabId, owner |-> owner]
NoErr == Err("none", NoTab, Null)
\* `Tab ${tabId} is owned by another OpenCode session (${existing.sessionId})`
OwnedErr(tabId, owner) == Err("owned", tabId, owner)
OfflineErr == Err("Chrome extension is not connected (native host offline)", NoTab, Null)
TimedOutErr == Err("Timed out waiting for extension", NoTab, Null)
DisconnectedErr == Err("Native host disconnected", NoTab, Null)
NoActiveTabErr == Err("Could not determine active tab", NoTab, Null)
MissingToolErr == Err("Missing tool", NoTab, Null)
TabIdRequiredErr == Err("tabId is required", NoTab, Null)
UnknownOpErr == Err("Unknown op", NoTab, Null)
BridgeErr(e) == Err(e, NoTab, Null)

\* typeof x === "number" for a tab id
IsNumber(x) == x \in Nat

\* --------------------------------------------------------------- map helpers
Put(f, k, v) == [x \in DOMAIN f \cup {k} |-> IF x = k THEN v ELSE f[x]]
Del(f, k) == [x \in DOMAIN f \ {k} |-> f[x]]
Empty == [x \in {} |-> Null]

RECURSIVE Ascending(_)
Ascending(S) ==
    IF S = {} THEN <<>>
    ELSE LET m == CHOOSE x \in S : \A y \in S : x <= y
         IN <<m>> \o Ascending(S \ {m})

RECURSIVE Concat(_)
Concat(ss) == IF ss = <<>> THEN <<>> ELSE Head(ss) \o Concat(Tail(ss))

\* ------------------------------------------------------------------ lines
\* writeJsonLine(socket, msg): one event of `out`
Write(socket, msg) == [to |-> socket, msg |-> msg]

NoData == [none |-> TRUE]
Response(id, ok, data, error) ==
    [type |-> "response", id |-> id, ok |-> ok, data |-> data, error |-> error]
replyOk(socket, requestId, data) == Write(socket, Response(requestId, TRUE, data, NoErr))
replyErr(socket, requestId, err) == Write(socket, Response(requestId, FALSE, NoData, err))

ToExtension(extId, tool, tabId) ==
    [type |-> "to_extension", id |-> extId, tool |-> tool, tabId |-> tabId]

\* (variant: every tool is treated as tab-scoped)
wantsTabAlways(toolName) == TRUE

wantsTab(toolName) == toolName \notin {"get_tabs", "get_active_tab"}

\* ------------------------------------------------------------ tab ownership
listClaims(cl) ==
    LET tabs == Ascending(DOMAIN cl)
    IN [i \in 1..Len(tabs) |->
          [tabId |-> tabs[i], sessionId |-> cl[tabs[i]].sessionId,
           claimedAt |-> cl[tabs[i]].claimedAt]]

releaseClaimsForSession(cl, sessionId) ==
    [t \in {x \in DOMAIN cl : cl[x].sessionId # sessionId} |-> cl[t]]

\* (variant: the ownership check lets everybody through)
checkClaimAllowsAll(cl, tabId, sessionId) == [ok |-> TRUE, error |-> NoErr]

checkClaim(cl, tabId, sessionId) ==
    IF tabId \notin DOMAIN cl THEN [ok |-> TRUE, error |-> NoErr]
    ELSE IF cl[tabId].sessionId = sessionId THEN [ok |-> TRUE, error |-> NoErr]
    ELSE [ok |-> FALSE, error |-> OwnedErr(tabId, cl[tabId].sessionId)]

\* (variant: a claim never replaces an existing one)
setClaimKeepsFirst(cl, tabId, sessionId, now) ==
    IF tabId \in DOMAIN cl THEN cl
    ELSE [x \in DOMAIN cl \cup {tabId} |->
             IF x = tabId THEN [sessionId |-> sessionId, claimedAt |-> now] ELSE cl[x]]

setClaim(cl, tabId, sessionId, now) ==
    Put(cl, tabId, [sessionId |-> sessionId, claimedAt |-> now])

\* ---------------------------------------------------------- calling the host
\* (variant: ensureHost never throws)
ensureHostNeverThrows(s) == TRUE

\* TRUE when ensureHost() returns, FALSE when it throws
ensureHost(s) == s.host \in Conns /\ s.clients[s.host].status = "open"

\* What an async function has done when control returns to the event loop: the
\* new state, the lines written, and whether it is suspended on a pending call
\* ("pending"), has thrown `err` ("threw") or has returned `res` ("returned").
NoResult == [tabId |-> NoTab]
Ret(s, out, done, err, res) == [s |-> s, out |-> out, done |-> done, err |-> err, res |-> res]
Suspended(s, out) == Ret(s, out, "pending", NoErr, NoResult)
Threw(s, err) == Ret(s, <<>>, "threw", err, NoResult)
Returned(s, res) == Ret(s, <<>>, "returned", NoErr, res)

\* The continuation awaiting a call: which await it is (`awaiting`), and the
\* locals of handleTool and of the request closure it will resume with.
Continuation(awaiting, pluginSocket, requestId, sessionId, tool, args, tabId) ==
    [awaiting |-> awaiting, pluginSocket |-> pluginSocket, requestId |-> requestId,
     sessionId |-> sessionId, tool |-> tool, args |-> args, tabId |-> tabId]

\* (variant: a call takes the lowest identifier that is not in the table)
callExtensionReusesIds(s, tool, tabId, k) ==
    IF ~ensureHost(s) THEN Threw(s, OfflineErr)
    ELSE LET extId == CHOOSE i \in 1..(s.nextExtId + 1) :
                         /\ i \notin DOMAIN s.extPending
                         /\ \A j \in 1..(i - 1) : j \in DOMAIN s.extPending
         IN Ret([s EXCEPT !.nextExtId = IF extId > @ THEN extId ELSE @,
                          !.extPending = [x \in DOMAIN @ \cup {extId} |->
                                             IF x = extId THEN k ELSE @[x]]],
                <<[to |-> s.host,
                   msg |-> [type |-> "to_extension", id |-> extId, tool |-> tool,
                            tabId |-> tabId]]>>,
                "pending", NoErr, NoResult)

callExtension(s, tool, tabId, k) ==
    IF ~ensureHost(s) THEN Threw(s, OfflineErr)
    ELSE LET extId == s.nextExtId + 1
         IN Suspended([s EXCEPT !.nextExtId = extId,
                                !.extPending = Put(@, extId, k)],
                      <<Write(s.host, ToExtension(extId, tool, tabId))>>)

\* (variant: handleTool does not look for the tool's name)
handleToolAnyTool(s, pluginSocket, requestId, tool, args, sessionId) ==
    IF ~IsNumber(args)
    THEN callExtension(s, "get_active_tab", NoTab,
                       Continuation("resolveActiveTab", pluginSocket, requestId,
                                    sessionId, tool, args, NoTab))
    ELSE IF ~checkClaim(s.claims, args, sessionId).ok
    THEN Threw(s, checkClaim(s.claims, args, sessionId).error)
    ELSE callExtension(s, tool, args,
                       Continuation("callExtension", pluginSocket, requestId,
                                    sessionId, tool, args, args))

\* (variant: the tab is claimed when the call is written, before any result)
handleToolClaimsFirst(s, pluginSocket, requestId, tool, args, sessionId) ==
    IF tool = Null THEN Threw(s, MissingToolErr)
    ELSE IF wantsTab(tool) /\ ~IsNumber(args)
    THEN callExtension(s, "get_active_tab", NoTab,
                       Continuation("resolveActiveTab", pluginSocket, requestId,
                                    sessionId, tool, args, NoTab))
    ELSE IF wantsTab(tool) /\ ~checkClaim(s.claims, args, sessionId).ok
    THEN Threw(s, checkClaim(s.claims, args, sessionId).error)
    ELSE callExtension(IF IsNumber(args) /\ args \notin DOMAIN s.claims
                       THEN [s EXCEPT !.claims = setClaim(@, args, sessionId, 0)]
                       ELSE s,
                       tool, args,
                       Continuation("callExtension", pluginSocket, requestId,
                                    sessionId, tool, args, args))

\* ------------------------------------------------------------------ handleTool
\* handleTool up to its first await (or throw).  `args` is args.tabId.
handleTool(s, pluginSocket, requestId, tool, args, sessionId) ==
    IF tool = Null THEN Threw(s, MissingToolErr)
    ELSE IF wantsTab(tool) /\ ~IsNumber(args)
    THEN \* tabId = await resolveActiveTab(sessionId)
         callExtension(s, "get_active_tab", NoTab,
                       Continuation("resolveActiveTab", pluginSocket, requestId,
                                    sessionId, tool, args, NoTab))
    ELSE IF wantsTab(tool) /\ ~checkClaim(s.claims, args, sessionId).ok
    THEN Threw(s, checkClaim(s.claims, args, sessionId).error)
    ELSE callExtension(s, tool, args,
                       Continuation("callExtension", pluginSocket, requestId,
                                    sessionId, tool, args, args))

\* (variant: the tab found by resolveActiveTab is used without the ownership check)
resumeResolveActiveTabUnchecked(s, k, res) ==
    LET tabId == IF IsNumber(res.tabId) THEN res.tabId ELSE NoTab
    IN IF ~IsNumber(tabId) \/ tabId = 0 THEN Threw(s, NoActiveTabErr)
       ELSE callExtension(s, k.tool, tabId,
                          Continuation("callExtension", k.pluginSocket, k.requestId,
                                       k.sessionId, k.tool, k.args, tabId))

\* (variant: without an active tab the tool is called with no tab)
resumeResolveActiveTabLenient(s, k, res) ==
    LET tabId == IF IsNumber(res.tabId) /\ res.tabId # 0 THEN res.tabId ELSE NoTab
    IN IF IsNumber(tabId) /\ ~checkClaim(s.claims, tabId, k.sessionId).ok
       THEN Threw(s, checkClaim(s.claims, tabId, k.sessionId).error)
       ELSE callExtension(s, k.tool, tabId,
                          Continuation("callExtension", k.pluginSocket, k.requestId,
                                       k.sessionId, k.tool, k.args, tabId))

\* handleTool resumed after `await resolveActiveTab` resolved with `res`:
\* the rest of resolveActiveTab, the ownership check and the tool's own call.
resumeResolveActiveTab(s, k, res) ==
    LET tabId == IF IsNumber(res.tabId) THEN res.tabId ELSE NoTab
    IN IF ~IsNumber(tabId) \/ tabId = 0 THEN Threw(s, NoActiveTabErr)
       ELSE IF ~checkClaim(s.claims, tabId, k.sessionId).ok
       THEN Threw(s, checkClaim(s.claims, tabId, k.sessionId).error)
       ELSE callExtension(s, k.tool, tabId,
                          Continuation("callExtension", k.pluginSocket, k.requestId,
                                       k.sessionId, k.tool, k.args, tabId))

\* (variant: the call's tab is claimed over an existing owner)
resumeCallExtensionOverwrites(s, k, res, now) ==
    LET usedTabId == IF res.tabId \in Nat THEN res.tabId
                     ELSE IF k.tabId \in Nat THEN k.tabId ELSE NoTab
    IN IF usedTabId \in Nat
       THEN Ret([s EXCEPT !.claims =
                     [x \in DOMAIN @ \cup {usedTabId} |->
                         IF x = usedTabId
                         THEN [sessionId |-> k.sessionId, claimedAt |-> now]
                         ELSE @[x]]],
                <<>>, "returned", NoErr, res)
       ELSE Ret(s, <<>>, "returned", NoErr, res)

\* (variant: the owner's own claim is set again by each of its calls)
resumeCallExtensionRestamps(s, k, res, now) ==
    LET usedTabId == IF res.tabId \in Nat THEN res.tabId
                     ELSE IF k.tabId \in Nat THEN k.tabId ELSE NoTab
    IN IF /\ usedTabId \in Nat
          /\ (usedTabId \in DOMAIN s.claims => s.claims[usedTabId].sessionId = k.sessionId)
       THEN Ret([s EXCEPT !.claims = setClaim(@, usedTabId, k.sessionId, now)],
                <<>>, "returned", NoErr, res)
       ELSE Ret(s, <<>>, "returned", NoErr, res)

\* (variant: a call that finds its tab claimed by another session fails)
resumeCallExtensionRechecks(s, k, res, now) ==
    LET usedTabId == IF res.tabId \in Nat THEN res.tabId
                     ELSE IF k.tabId \in Nat THEN k.tabId ELSE NoTab
    IN IF usedTabId \in Nat /\ usedTabId \notin DOMAIN s.claims
       THEN Ret([s EXCEPT !.claims = setClaim(@, usedTabId, k.sessionId, now)],
                <<>>, "returned", NoErr, res)
       ELSE IF usedTabId \in Nat /\ s.claims[usedTabId].sessionId # k.sessionId
       THEN Ret(s, <<>>, "threw", OwnedErr(usedTabId, s.claims[usedTabId].sessionId), NoResult)
       ELSE Ret(s, <<>>, "returned", NoErr, res)

\* (variant: the tab of the request is claimed, whatever the result echoes)
resumeCallExtensionRequestedTab(s, k, res, now) ==
    IF k.tabId \in Nat /\ k.tabId \notin DOMAIN s.claims
    THEN Ret([s EXCEPT !.claims = setClaim(@, k.tabId, k.sessionId, now)],
             <<>>, "returned", NoErr, res)
    ELSE Ret(s, <<>>, "returned", NoErr, res)

\* (variant: only tab-scoped tools claim a tab on success)
resumeCallExtensionTabToolsOnly(s, k, res, now) ==
    LET usedTabId == IF res.tabId \in Nat THEN res.tabId
                     ELSE IF k.tabId \in Nat THEN k.tabId ELSE NoTab
    IN IF /\ k.tool \notin {"get_tabs", "get_active_tab"}
          /\ usedTabId \in Nat /\ usedTabId \notin DOMAIN s.claims
       THEN Ret([s EXCEPT !.claims = setClaim(@, usedTabId, k.sessionId, now)],
                <<>>, "returned", NoErr, res)
       ELSE Ret(s, <<>>, "returned", NoErr, res)

\* handleTool resumed after `await callExtension(tool, ...)` resolved with `res`
resumeCallExtension(s, k, res, now) ==
    LET usedTabId == IF IsNumber(res.tabId) THEN res.tabId
                     ELSE IF IsNumber(k.tabId) THEN k.tabId ELSE NoTab
    IN IF IsNumber(usedTabId) /\ usedTabId \notin DOMAIN s.claims
       THEN Returned([s EXCEPT !.claims = setClaim(@, usedTabId, k.sessionId, now)], res)
       ELSE Returned(s, res)

\* (variant: the request is answered as soon as its call is written)
finishRepliesEarly(r, pluginSocket, requestId) ==
    [s |-> r.s,
     out |-> CASE r.done = "returned" -> r.out \o <<replyOk(pluginSocket, requestId, r.res)>>
               [] r.done = "threw" -> r.out \o <<replyErr(pluginSocket, requestId, r.err)>>
               [] OTHER -> r.out \o <<replyOk(pluginSocket, requestId, NoResult)>>]

\* The request closure around handleTool: replyOk(result) / catch replyErr(e)
finish(r, pluginSocket, requestId) ==
    [s |-> r.s,
     out |-> CASE r.done = "returned" -> r.out \o <<replyOk(pluginSocket, requestId, r.res)>>
               [] r.done = "threw" -> r.out \o <<replyErr(pluginSocket, requestId, r.err)>>
               [] OTHER -> r.out]

\* pending.resolve(result): the continuation stored under a call id runs
resolved(s, k, res, now) ==
    finish(IF k.awaiting = "resolveActiveTab" THEN resumeResolveActiveTab(s, k, res)
           ELSE resumeCallExtension(s, k, res, now),
           k.pluginSocket, k.requestId)

\* pending.reject(err): either await rethrows into the request's catch
rejected(s, k, err) == finish(Threw(s, err), k.pluginSocket, k.requestId)

\* ------------------------------------------------------------------ text
\* The bytes of a connection, as a sequence of pieces: a newline, a run of
\* white space, text that is no JSON, the JSON text of a message, or one of
\* the two halves of a JSON text cut inside a literal (so that nothing but
\* the other half completes it).
NoMsg == [type |-> "none"]
Piece(k, m) == [k |-> k, m |-> m]
NL == Piece("nl", NoMsg)
Blank == Piece("blank", NoMsg)
Junk == Piece("junk", NoMsg)
Json(m) == Piece("json", m)
FirstHalf(m) == Piece("first", m)
SecondHalf(m) == Piece("second", m)
\* JSON text of a value that is no message object (a number, null, a string)
Scalar == [type |-> "scalar"]

\* String concatenation: two halves of the same text make the text, white
\* space after white space is white space, junk after junk is junk.
RECURSIVE StrConcat(_)
StrConcat(text) ==
    IF Len(text) < 2 THEN text
    ELSE LET a == text[1]
             b == text[2]
             rest == SubSeq(text, 3, Len(text))
         IN IF a.k = "first" /\ b.k = "second" /\ a.m = b.m
            THEN StrConcat(<<Json(a.m)>> \o rest)
            ELSE IF a.k = b.k /\ a.k \in {"blank", "junk"}
            THEN StrConcat(<<a>> \o rest)
            ELSE <<a>> \o StrConcat(Tail(text))

\* buffer.indexOf("\n"), counted from 1; 0 when there is none
IndexOfNewline(text) ==
    IF \E i \in 1..Len(text) : text[i].k = "nl"
    THEN CHOOSE i \in 1..Len(text) :
            text[i].k = "nl" /\ \A j \in 1..(i - 1) : text[j].k # "nl"
    ELSE 0

\* line.trim()
RECURSIVE Trim(_)
Trim(line) ==
    IF line = <<>> THEN line
    ELSE IF line[1].k = "blank" THEN Trim(Tail(line))
    ELSE IF line[Len(line)].k = "blank" THEN Trim(SubSeq(line, 1, Len(line) - 1))
    ELSE line

\* JSON.parse(line): a value when the line is one JSON text with white space
\* around it at most, a SyntaxError otherwise
JsonParse(line) ==
    LET t == Trim(line)
    IN IF Len(t) = 1 /\ t[1].k = "json"
       THEN [ok |-> TRUE, value |-> t[1].m]
       ELSE [ok |-> FALSE, value |-> NoMsg]

\* (variant: the loop ends at the first line that does not parse)
RECURSIVE parserLoopNoCatch(_, _)
parserLoopNoCatch(buf, msgs) ==
    LET idx == IndexOfNewline(buf)
    IN IF idx = 0 THEN [messages |-> msgs, buffer |-> buf]
       ELSE LET line == SubSeq(buf, 1, idx - 1)
                rest == SubSeq(buf, idx + 1, Len(buf))
            IN IF Trim(line) = <<>> THEN parserLoopNoCatch(rest, msgs)
               ELSE IF JsonParse(line).ok
               THEN parserLoopNoCatch(rest, Append(msgs, JsonParse(line).value))
               ELSE [messages |-> msgs, buffer |-> rest]

\* (variant: a SyntaxError leaves the data handler)
createJsonLineParserNoCatch(buffer0, chunk) ==
    parserLoopNoCatch(StrConcat(buffer0 \o chunk), <<>>)

\* The while loop of the parser: the messages handed to onMessage, in order,
\* and the text left in the buffer.
RECURSIVE parserLoop(_, _)
parserLoop(buf, msgs) ==
    LET idx == IndexOfNewline(buf)
    IN IF idx = 0 THEN [messages |-> msgs, buffer |-> buf]
       ELSE LET line == SubSeq(buf, 1, idx - 1)
                rest == SubSeq(buf, idx + 1, Len(buf))
            IN IF Trim(line) = <<>> THEN parserLoop(rest, msgs)
               ELSE IF JsonParse(line).ok
               THEN parserLoop(rest, Append(msgs, JsonParse(line).value))
               ELSE parserLoop(rest, msgs)

\* The function createJsonLineParser returns, applied to `chunk` when its
\* buffer holds `buffer0`
createJsonLineParser(buffer0, chunk) ==
    parserLoop(StrConcat(buffer0 \o chunk), <<>>)

\* ------------------------------------------------------- messages received
Hello(role, sessionId) == [type |-> "hello", role |-> role, sessionId |-> sessionId]
\* { type: "from_extension", message: { type: "tool_response", id, result, error } }
FromExtension(id, error, result) ==
    [type |-> "from_extension", id |-> id, error |-> error, result |-> result]
\* `args` is args.tabId; `sessionId` is the request's own sessionId field
Request(id, op, sessionId, tabId, force, tool, args) ==
    [type |-> "request", id |-> id, op |-> op, sessionId |-> sessionId,
     tabId |-> tabId, force |-> force, tool |-> tool, args |-> args]

Done(s, out) == [s |-> s, out |-> out]

HostReady(cl) == [type |-> "host_ready", claims |-> listClaims(cl)]

\* (variant: a bridge handshake does not replace the host there is)
handleHelloKeepsHost(s, socket, msg) ==
    LET s1 == [s EXCEPT !.clients[socket].role =
                            IF msg.role = Null THEN "unknown" ELSE msg.role,
                        !.clients[socket].sessionId = msg.sessionId]
    IN IF msg.role = "native-host"
       THEN [s |-> IF s.host \in Conns THEN s1 ELSE [s1 EXCEPT !.host = socket],
             out |-> <<[to |-> socket,
                        msg |-> [type |-> "host_ready", claims |-> listClaims(s.claims)]]>>]
       ELSE [s |-> s1, out |-> <<>>]

\* (variant: a bridge handshake discards the calls in flight)
handleHelloDropsCalls(s, socket, msg) ==
    LET s1 == [s EXCEPT !.clients[socket].role =
                            IF msg.role = Null THEN "unknown" ELSE msg.role,
                        !.clients[socket].sessionId = msg.sessionId]
    IN IF msg.role = "native-host"
       THEN [s |-> [s1 EXCEPT !.host = socket, !.extPending = <<>>],
             out |-> <<[to |-> socket,
                        msg |-> [type |-> "host_ready", claims |-> listClaims(s.claims)]]>>]
       ELSE [s |-> s1, out |-> <<>>]

\* (variant: every hello is answered with host_ready)
handleHelloGreetsAll(s, socket, msg) ==
    LET s1 == [s EXCEPT !.clients[socket].role =
                            IF msg.role = Null THEN "unknown" ELSE msg.role,
                        !.clients[socket].sessionId = msg.sessionId]
        greeting == <<[to |-> socket,
                       msg |-> [type |-> "host_ready", claims |-> listClaims(s.claims)]]>>
    IN IF msg.role = "native-host"
       THEN [s |-> [s1 EXCEPT !.host = socket], out |-> greeting]
       ELSE [s |-> s1, out |-> greeting]

\* msg.type === "hello"
handleHello(s, socket, msg) ==
    LET s1 == [s EXCEPT !.clients[socket].role =
                            IF msg.role = Null THEN "unknown" ELSE msg.role,
                        !.clients[socket].sessionId = msg.sessionId]
    IN IF msg.role = "native-host"
       THEN Done([s1 EXCEPT !.host = socket], <<Write(socket, HostReady(s.claims))>>)
       ELSE Done(s1, <<>>)

\* (variant: the entry stays in the table when its response arrives)
handleFromExtensionKeepsEntry(s, socket, msg, now) ==
    IF msg.id \notin DOMAIN s.extPending THEN [s |-> s, out |-> <<>>]
    ELSE IF msg.error # Null
    THEN [s |-> s,
          out |-> <<[to |-> s.extPending[msg.id].pluginSocket,
                     msg |-> [type |-> "response", id |-> s.extPending[msg.id].requestId,
                              ok |-> FALSE, data |-> [none |-> TRUE],
                              error |-> [kind |-> msg.error, tabId |-> NoTab,
                                         owner |-> Null]]]>>]
    ELSE [s |-> s,
          out |-> <<[to |-> s.extPending[msg.id].pluginSocket,
                     msg |-> [type |-> "response", id |-> s.extPending[msg.id].requestId,
                              ok |-> TRUE, data |-> msg.result,
                              error |-> [kind |-> "none", tabId |-> NoTab,
                                         owner |-> Null]]]>>]

\* (variant: the response is handed on under the call id, not the request id)
handleFromExtensionByCallId(s, socket, msg, now) ==
    IF msg.id \notin DOMAIN s.extPending THEN [s |-> s, out |-> <<>>]
    ELSE [s |-> [s EXCEPT !.extPending = [x \in DOMAIN @ \ {msg.id} |-> @[x]]],
          out |-> <<[to |-> s.extPending[msg.id].pluginSocket,
                     msg |-> [type |-> "response", id |-> msg.id,
                              ok |-> msg.error = Null,
                              data |-> IF msg.error = Null THEN msg.result
                                       ELSE [none |-> TRUE],
                              error |-> [kind |-> IF msg.error = Null THEN "none"
                                                  ELSE msg.error,
                                         tabId |-> NoTab, owner |-> Null]]]>>]

\* msg.type === "from_extension" carrying a tool_response with a numeric id
handleFromExtension(s, socket, msg, now) ==
    IF msg.id \notin DOMAIN s.extPending THEN Done(s, <<>>)
    ELSE LET pending == s.extPending[msg.id]
             s1 == [s EXCEPT !.extPending = Del(@, msg.id)]
         IN IF msg.error # Null THEN rejected(s1, pending, BridgeErr(msg.error))
            ELSE resolved(s1, pending, msg.result, now)

StatusData(s) ==
    [broker |-> TRUE,
     hostConnected |-> s.host # Null /\ s.host \in Conns /\ s.clients[s.host].status = "open",
     claims |-> listClaims(s.claims)]

\* (variant: claim_tab never looks at the owner)
claimTabIgnoresOwner(s, socket, requestId, sessionId, msg, now) ==
    IF msg.tabId \notin Nat
    THEN [s |-> s, out |-> <<replyErr(socket, requestId, TabIdRequiredErr)>>]
    ELSE [s |-> [s EXCEPT !.claims = setClaim(@, msg.tabId, sessionId, now)],
          out |-> <<replyOk(socket, requestId,
                            [ok |-> TRUE, tabId |-> msg.tabId, sessionId |-> sessionId])>>]

\* (variant: claim_tab never looks at force)
claimTabIgnoresForce(s, socket, requestId, sessionId, msg, now) ==
    IF msg.tabId \notin Nat
    THEN [s |-> s, out |-> <<replyErr(socket, requestId, TabIdRequiredErr)>>]
    ELSE IF msg.tabId \in DOMAIN s.claims /\ s.claims[msg.tabId].sessionId # sessionId
    THEN [s |-> s, out |-> <<replyErr(socket, requestId,
                                      OwnedErr(msg.tabId, s.claims[msg.tabId].sessionId))>>]
    ELSE [s |-> [s EXCEPT !.claims = setClaim(@, msg.tabId, sessionId, now)],
          out |-> <<replyOk(socket, requestId,
                            [ok |-> TRUE, tabId |-> msg.tabId, sessionId |-> sessionId])>>]

\* msg.op === "claim_tab"
claimTab(s, socket, requestId, sessionId, msg, now) ==
    IF ~IsNumber(msg.tabId) THEN Done(s, <<replyErr(socket, requestId, TabIdRequiredErr)>>)
    ELSE IF /\ msg.tabId \in DOMAIN s.claims
            /\ s.claims[msg.tabId].sessionId # sessionId
            /\ ~msg.force
    THEN Done(s, <<replyErr(socket, requestId,
                            OwnedErr(msg.tabId, s.claims[msg.tabId].sessionId))>>)
    ELSE Done([s EXCEPT !.claims = setClaim(@, msg.tabId, sessionId, now)],
              <<replyOk(socket, requestId,
                        [ok |-> TRUE, tabId |-> msg.tabId, sessionId |-> sessionId])>>)

\* (variant: release_tab lets any session release)
releaseTabByAnyone(s, socket, requestId, sessionId, msg) ==
    IF msg.tabId \notin Nat
    THEN [s |-> s, out |-> <<replyErr(socket, requestId, TabIdRequiredErr)>>]
    ELSE IF msg.tabId \notin DOMAIN s.claims
    THEN [s |-> s, out |-> <<replyOk(socket, requestId,
                                     [ok |-> TRUE, tabId |-> msg.tabId, released |-> FALSE])>>]
    ELSE [s |-> [s EXCEPT !.claims = Del(@, msg.tabId)],
          out |-> <<replyOk(socket, requestId,
                            [ok |-> TRUE, tabId |-> msg.tabId, released |-> TRUE])>>]

\* msg.op === "release_tab"
releaseTab(s, socket, requestId, sessionId, msg) ==
    IF ~IsNumber(msg.tabId) THEN Done(s, <<replyErr(socket, requestId, TabIdRequiredErr)>>)
    ELSE IF msg.tabId \notin DOMAIN s.claims
    THEN Done(s, <<replyOk(socket, requestId,
                           [ok |-> TRUE, tabId |-> msg.tabId, released |-> FALSE])>>)
    ELSE IF s.claims[msg.tabId].sessionId # sessionId
    THEN Done(s, <<replyErr(socket, requestId,
                            OwnedErr(msg.tabId, s.claims[msg.tabId].sessionId))>>)
    ELSE Done([s EXCEPT !.claims = Del(@, msg.tabId)],
              <<replyOk(socket, requestId,
                        [ok |-> TRUE, tabId |-> msg.tabId, released |-> TRUE])>>)

\* (variant: a request always acts as the session of its connection's hello)
handleRequestAsConnection(s, socket, msg, now) ==
    LET requestId == msg.id
        sessionId == s.clients[socket].sessionId
        ok(s2, data) == Done(s2, <<replyOk(socket, requestId, data)>>)
        fail(err) == Done(s, <<replyErr(socket, requestId, err)>>)
    IN CASE msg.op = "status" -> ok(s, StatusData(s))
         [] msg.op = "list_claims" -> ok(s, [claims |-> listClaims(s.claims)])
         [] msg.op = "claim_tab" -> claimTab(s, socket, requestId, sessionId, msg, now)
         [] msg.op = "release_tab" -> releaseTab(s, socket, requestId, sessionId, msg)
         [] msg.op = "tool" ->
              finish(handleTool(s, socket, requestId, msg.tool, msg.args, sessionId),
                     socket, requestId)
         [] OTHER -> fail(UnknownOpErr)

\* msg.type === "request" with a numeric id
handleRequest(s, socket, msg, now) ==
    LET requestId == msg.id
        sessionId == IF msg.sessionId # Null THEN msg.sessionId
                     ELSE s.clients[socket].sessionId
        ok(s2, data) == Done(s2, <<replyOk(socket, requestId, data)>>)
        fail(err) == Done(s, <<replyErr(socket, requestId, err)>>)
    IN CASE msg.op = "status" -> ok(s, StatusData(s))
         [] msg.op = "list_claims" -> ok(s, [claims |-> listClaims(s.claims)])
         [] msg.op = "claim_tab" -> claimTab(s, socket, requestId, sessionId, msg, now)
         [] msg.op = "release_tab" -> releaseTab(s, socket, requestId, sessionId, msg)
         [] msg.op = "tool" ->
              finish(handleTool(s, socket, requestId, msg.tool, msg.args, sessionId),
                     socket, requestId)
         [] OTHER -> fail(UnknownOpErr)

handleClientMessage(s, socket, msg, now) ==
    CASE msg.type = "hello" -> handleHello(s, socket, msg)
      [] msg.type = "from_extension" -> handleFromExtension(s, socket, msg, now)
      [] msg.type = "request" /\ msg.id \in Nat -> handleRequest(s, socket, msg, now)
      [] OTHER -> Done(s, <<>>)

\* socket.on("data", createJsonLineParser(msg => handleClientMessage(socket, client, msg))):
\* the state and the lines written after the chunk's messages, and the buffer left
RECURSIVE onMessages(_, _, _, _)
onMessages(s, socket, msgs, now) ==
    IF msgs = <<>> THEN Done(s, <<>>)
    ELSE LET r == handleClientMessage(s, socket, Head(msgs), now)
             q == onMessages(r.s, socket, Tail(msgs), now)
         IN Done(q.s, r.out \o q.out)

onData(s, buffer0, socket, chunk, now) ==
    LET p == createJsonLineParser(buffer0, chunk)
        r == onMessages(s, socket, p.messages, now)
    IN [s |-> r.s, out |-> r.out, buffer |-> p.buffer, delivered |-> p.messages]

\* net.createServer callback: const client = { role: "unknown", sessionId: null }
connectionListener(s, socket) ==
    [s EXCEPT !.clients[socket] = [status |-> "open", role |-> "unknown", sessionId |-> Null]]

\* ------------------------------------------------------------- timers, close
\* (variant: the timer does nothing)
timeoutHandlerIdle(s, extId) == [s |-> s, out |-> <<>>]

\* (variant: on expiry the call is written to the host again and stays pending)
timeoutHandlerRetries(s, extId) ==
    IF extId \notin DOMAIN s.extPending THEN [s |-> s, out |-> <<>>]
    ELSE [s |-> s,
          out |-> <<[to |-> s.host,
                     msg |-> [type |-> "to_extension", id |-> extId,
                              tool |-> s.extPending[extId].tool,
                              tabId |-> s.extPending[extId].tabId]]>>]

\* the setTimeout callback of call extId
timeoutHandler(s, extId) ==
    IF extId \notin DOMAIN s.extPending THEN Done(s, <<>>)
    ELSE rejected([s EXCEPT !.extPending = Del(@, extId)], s.extPending[extId],
                  TimedOutErr)

\* A closed socket is never written to again with effect and never read from:
\* every reference kept to it becomes Dead, so that the socket's name can stand
\* for a later connection.
Bury(s, socket) ==
    [s EXCEPT !.clients[socket] = [status |-> "closed", role |-> "unknown", sessionId |-> Null],
              !.host = IF @ = socket THEN Dead ELSE @,
              !.extPending = [id \in DOMAIN @ |->
                                [@[id] EXCEPT !.pluginSocket =
                                    IF @ = socket THEN Dead ELSE @]]]

\* (variant: the calls a closing connection had in flight are discarded)
closeHandlerDropsCalls(s, socket) ==
    LET client == s.clients[socket]
        wasHost == client.role = "native-host" /\ s.host = socket
        b == Bury(s, socket)
        kept == {id \in DOMAIN s.extPending : s.extPending[id].pluginSocket # socket}
        s1 == IF wasHost THEN [b EXCEPT !.host = Null, !.extPending = <<>>]
              ELSE [b EXCEPT !.extPending = [id \in kept |-> @[id]]]
        s2 == IF client.sessionId # Null
              THEN [s1 EXCEPT !.claims = releaseClaimsForSession(@, client.sessionId)]
              ELSE s1
        failed == IF wasHost THEN Ascending(DOMAIN b.extPending) ELSE <<>>
    IN [s |-> s2,
        out |-> Concat([i \in 1..Len(failed) |->
                          rejected(s2, b.extPending[failed[i]], DisconnectedErr).out])]

\* (variant: the host's close clears the bridge reference and leaves the calls)
closeHandlerKeepsCalls(s, socket) ==
    LET client == s.clients[socket]
        wasHost == client.role = "native-host" /\ s.host = socket
        b == Bury(s, socket)
        s1 == IF wasHost THEN [b EXCEPT !.host = Null] ELSE b
        s2 == IF client.sessionId # Null
              THEN [s1 EXCEPT !.claims = releaseClaimsForSession(@, client.sessionId)]
              ELSE s1
    IN [s |-> s2, out |-> <<>>]

\* (variant: the close of any native host clears the bridge reference)
closeHandlerAnyHost(s, socket) ==
    LET client == s.clients[socket]
        wasHost == client.role = "native-host"
        b == Bury(s, socket)
        s1 == IF wasHost THEN [b EXCEPT !.host = Null, !.extPending = <<>>] ELSE b
        s2 == IF client.sessionId # Null
              THEN [s1 EXCEPT !.claims = releaseClaimsForSession(@, client.sessionId)]
              ELSE s1
        failed == IF wasHost THEN Ascending(DOMAIN b.extPending) ELSE <<>>
    IN [s |-> s2,
        out |-> Concat([i \in 1..Len(failed) |->
                          rejected(s2, b.extPending[failed[i]], DisconnectedErr).out])]

\* socket.on("close")
closeHandler(s, socket) ==
    LET client == s.clients[socket]
        wasHost == client.role = "native-host" /\ s.host = socket
        b == Bury(s, socket)
        s1 == IF wasHost THEN [b EXCEPT !.host = Null, !.extPending = Empty] ELSE b
        s2 == IF client.sessionId # Null
              THEN [s1 EXCEPT !.claims = releaseClaimsForSession(@, client.sessionId)]
              ELSE s1
        failed == IF wasHost THEN Ascending(DOMAIN b.extPending) ELSE <<>>
    IN Done(s2, Concat([i \in 1..Len(failed) |->
                          rejected(s2, b.extPending[failed[i]], DisconnectedErr).out]))

\* ---------------------------------------------------------------- history
\* hist[id].excused: since call id was forwarded, its session has given up the
\*   call's tab (released it, lost it to a forced claim) or has disconnected.
\* hist[id].freed: the close of the call's own connection released the call's tab.
NoHist == [excused |-> FALSE, freed |-> FALSE]

\* The session a request acts as: msg.sessionId || client.sessionId
ActingSession(s, socket, msg) ==
    IF msg.sessionId # Null THEN msg.sessionId ELSE s.clients[socket].sessionId

\* Entries are created with their call and die with it.
Carry(h, s2) == [id \in DOMAIN s2.extPending |-> IF id \in DOMAIN h THEN h[id] ELSE NoHist]

\* release_tab that removed the acting session's claim, or a forced claim_tab
\* that succeeded, excuses the calls in flight it takes the tab from.
GiveUp(h, s, s2, socket, msg) ==
    LET sid == ActingSession(s, socket, msg)
        released == /\ msg.op = "release_tab"
                    /\ msg.tabId \in DOMAIN s.claims /\ msg.tabId \notin DOMAIN s2.claims
        forced == /\ msg.op = "claim_tab" /\ msg.force /\ msg.tabId \in DOMAIN s2.claims
                  /\ s2.claims[msg.tabId].sessionId = sid
    IN [id \in DOMAIN h |->
          IF \/ released /\ s.extPending[id].sessionId = sid /\ s.extPending[id].tabId = msg.tabId
             \/ forced /\ s.extPending[id].sessionId # sid /\ s.extPending[id].tabId = msg.tabId
          THEN [h[id] EXCEPT !.excused = TRUE] ELSE h[id]]

Leave(h, s, socket) ==
    LET sid == s.clients[socket].sessionId
    IN [id \in DOMAIN h |->
          [h[id] EXCEPT
             !.excused = @ \/ (sid # Null /\ s.extPending[id].sessionId = sid),
             !.freed = \/ @
                       \/ /\ sid # Null /\ s.extPending[id].pluginSocket = socket
                          /\ s.extPending[id].tabId \in DOMAIN s.claims
                          /\ s.claims[s.extPending[id].tabId].sessionId = sid]]

\* ------------------------------------------------------------------ inputs
\* An environment: what each connection may say in its hello, which tool
\* requests it may send (tool and args.tabId), and how many tool requests a
\* session may have outstanding.
Tool(tool, args) == [tool |-> tool, args |-> args]
AllTools == {Tool(tool, a) : tool \in Tools \cup {Null}, a \in Tabs \cup {NoTab}}

\* c1 is the native host, c2 is session A, c3 is session B.  B sends only
\* tab-scoped tools with an explicit tab.
TwoSessions ==
    [hello |-> [c \in Conns |->
                  CASE c = "c1" -> {Hello("native-host", Null)}
                    [] c = "c2" -> {Hello("plugin", "A")}
                    [] OTHER -> {Hello("plugin", "B")}],
     tools |-> [c \in Conns |->
                  CASE c = "c2" -> AllTools
                    [] c = "c3" -> {Tool("click", a) : a \in Tabs}
                    [] OTHER -> {}],
     split |-> [c \in Conns |-> {}],
     outstanding |-> 1]

\* c1 and c3 are native hosts that may replace each other; c1 may say hello
\* again as something else, and c3 may name a session in its hello; c2 is
\* session A with two tool requests at a time.
Hosts ==
    [hello |-> [c \in Conns |->
                  CASE c = "c1" -> {Hello("native-host", Null), Hello("plugin", Null)}
                    [] c = "c2" -> {Hello("plugin", "A")}
                    [] OTHER -> {Hello("native-host", Null), Hello("native-host", "A")}],
     tools |-> [c \in Conns |->
                  CASE c = "c2" -> {Tool("click", a) : a \in Tabs \cup {NoTab}}
                    [] OTHER -> {}],
     split |-> [c \in Conns |-> {}],
     outstanding |-> 2]

\* c1 is the native host, c2 is session A, c3 is session B.  A may send its
\* hello and one claim_tab in two chunks, and unfinished text.
Lines ==
    [hello |-> [c \in Conns |->
                  CASE c = "c1" -> {Hello("native-host", Null)}
                    [] c = "c2" -> {Hello("plugin", "A")}
                    [] OTHER -> {Hello("plugin", "B")}],
     tools |-> [c \in Conns |->
                  CASE c = "c2" -> {Tool("click", 1)}
                    [] OTHER -> {}],
     split |-> [c \in Conns |->
                  CASE c = "c2" -> {Hello("plugin", "A"),
                                    Request(1, "claim_tab", Null, 1, FALSE, Null, NoTab)}
                    [] OTHER -> {}],
     outstanding |-> 1]

Results == {[tabId |-> t] : t \in Tabs \cup {NoTab}}
\* Responses for the pending ids, in every shape, and one for an id that is not pending.
StaleIds(s) == LET free == (1..MaxCalls) \ DOMAIN s.extPending
               IN {i \in free : \A j \in free : i <= j}
FromExtensionMsgs(s) ==
    {FromExtension(id, Null, res) : id \in DOMAIN s.extPending, res \in Results}
    \cup {FromExtension(id, e, NoResult) : id \in DOMAIN s.extPending, e \in BridgeErrors}
    \cup {FromExtension(id, Null, NoResult) : id \in StaleIds(s)}

\* A client numbers a request with the smallest id it has no request outstanding for.
FreeIds(s, socket) ==
    {i \in ReqIds : \A id \in DOMAIN s.extPending :
        ~(s.extPending[id].pluginSocket = socket /\ s.extPending[id].requestId = i)}
NextRequestId(s, socket) == CHOOSE i \in FreeIds(s, socket) : \A j \in FreeIds(s, socket) : i <= j

Overrides == {Null}   \* the sessionId field of requests
SyncRequestMsgs(id) ==
    {Request(id, op, o, NoTab, FALSE, Null, NoTab) :
        op \in {"status", "list_claims", "bogus"}, o \in Overrides}
    \cup {Request(id, "claim_tab", o, t, f, Null, NoTab) :
            o \in Overrides, t \in Tabs \cup {NoTab}, f \in BOOLEAN}
    \cup {Request(id, "release_tab", o, t, FALSE, Null, NoTab) :
            o \in Overrides, t \in Tabs \cup {NoTab}}
ToolRequestMsgs(id, tools) ==
    {Request(id, "tool", o, NoTab, FALSE, x.tool, x.args) : o \in Overrides, x \in tools}
RequestMsgs(E, c, id) == SyncRequestMsgs(id) \cup ToolRequestMsgs(id, E.tools[c])

\* Call ids still needed by the requests in flight: one more for each request
\* that is waiting for the active tab.
Reserve(s) == Cardinality({id \in DOMAIN s.extPending :
                              s.extPending[id].awaiting = "resolveActiveTab"})

\* Sessions identify themselves before they send requests, and have at most
\* E.outstanding tool requests in flight; claim_tab, release_tab, status and
\* list_claims may be sent while they wait.
MaySend(E, s, socket, msg) ==
    /\ s.clients[socket].status = "open"
    /\ s.clients[socket].sessionId # Null
    /\ msg.op = "tool" =>
          Cardinality({id \in DOMAIN s.extPending :
                          s.extPending[id].sessionId = ActingSession(s, socket, msg)})
             < E.outstanding

\* The call ids the request needs do not exceed MaxCalls.
Fits(s, socket, msg) ==
    LET s2 == handleClientMessage(s, socket, msg, 0).s
    IN s2.nextExtId + Reserve(s2) <= MaxCalls

\* The requests connection c can send in state s
Requests(E, s, c) ==
    IF s.clients[c].status = "open" /\ FreeIds(s, c) # {}
    THEN {msg \in RequestMsgs(E, c, NextRequestId(s, c)) :
             MaySend(E, s, c, msg) /\ Fits(s, c, msg)}
    ELSE {}

\* ------------------------------------------------------------------ actions
Init ==
    /\ clients = [c \in Conns |-> [status |-> "closed", role |-> "unknown", sessionId |-> Null]]
    /\ host = Null
    /\ nextExtId = 0
    /\ extPending = Empty
    /\ claims = Empty
    /\ hist = Empty
    /\ buffer = [c \in Conns |-> <<>>]

Becomes(s) ==
    /\ clients' = s.clients
    /\ host' = s.host
    /\ nextExtId' = s.nextExtId
    /\ extPending' = s.extPending
    /\ claims' = s.claims

\* net.createServer callback: a connection is accepted
Connect(c) ==
    /\ clients[c].status = "closed"
    /\ Becomes(connectionListener(St, c))
    /\ buffer' = [buffer EXCEPT ![c] = <<>>]
    /\ UNCHANGED hist

\* The chunks in which connection c may send the line of `msg`: the whole
\* line and, for a message it may split, the line after a line of junk or
\* the rest of a line begun earlier.
Chunks(E, c, msg) ==
    {<<Json(msg), NL>>}
    \cup UNION {{<<Junk, NL, Json(m), NL>>, <<SecondHalf(m), NL>>} : m \in E.split[c] \cap {msg}}

\* A data event on socket c has run and left r
Received(c, r) ==
    /\ Becomes(r.s)
    /\ buffer' = [buffer EXCEPT ![c] = r.buffer]

ReceiveHello(E, c) ==
    /\ clients[c].status = "open"
    /\ \E msg \in E.hello[c] : \E chunk \in Chunks(E, c, msg) :
          Received(c, onData(St, buffer[c], c, chunk, 0))
    /\ UNCHANGED hist

ReceiveFromExtension(c) ==
    /\ clients[c].status = "open"
    /\ \E msg \in FromExtensionMsgs(St), now \in Clock :
          LET r == onData(St, buffer[c], c, <<Json(msg), NL>>, now)
          IN /\ Received(c, r)
             /\ hist' = Carry(hist, r.s)

\* The request reaches the handler unless the text before it in the buffer
\* spoils its line.
ReceiveRequest(E, c) ==
    /\ \E msg \in Requests(E, St, c), now \in Clock :
          \E chunk \in Chunks(E, c, msg) :
             LET r == onData(St, buffer[c], c, chunk, now)
             IN /\ Received(c, r)
                /\ hist' = IF r.delivered = <<msg>>
                           THEN Carry(GiveUp(hist, St, r.s, c, msg), r.s)
                           ELSE hist

\* Text that carries no message of the protocol: a line of junk and, on a
\* connection that splits messages, lines of white space, empty lines, the
\* JSON text of a scalar and, unfinished, junk, white space or the first half
\* of a message.
Text(E, c) ==
    {<<Junk, NL>>}
    \cup (IF E.split[c] = {} THEN {}
          ELSE {<<Blank, NL>>, <<NL>>, <<Json(Scalar), NL>>, <<Junk>>, <<Blank>>}
               \cup {<<FirstHalf(m)>> : m \in E.split[c]})

ReceiveText(E, c) ==
    /\ clients[c].status = "open"
    /\ \E chunk \in Text(E, c), now \in Clock :
          LET r == onData(St, buffer[c], c, chunk, now)
          IN /\ Len(r.buffer) <= MaxBuffer
             /\ Received(c, r)
             /\ hist' = Carry(hist, r.s)

\* The host's socket is destroyed (peer gone, write error); its close event
\* is still to come.
Destroy(c) ==
    /\ clients[c].status = "open"
    /\ host = c
    /\ clients' = [clients EXCEPT ![c].status = "destroyed"]
    /\ UNCHANGED <<host, nextExtId, extPending, claims, hist, buffer>>

Close(c) ==
    /\ clients[c].status \in {"open", "destroyed"}
    /\ LET r == closeHandler(St, c)
       IN /\ Becomes(r.s)
          /\ hist' = Carry(Leave(hist, St, c), r.s)
          /\ buffer' = [buffer EXCEPT ![c] = <<>>]

Timeout(extId) ==
    /\ extId \in DOMAIN extPending
    /\ LET r == timeoutHandler(St, extId)
       IN /\ Becomes(r.s)
          /\ hist' = Carry(hist, r.s)
          /\ UNCHANGED buffer

NextOf(E) ==
    \/ \E c \in Conns : Connect(c)
    \/ \E c \in Conns : ReceiveHello(E, c)
    \/ \E c \in Conns : ReceiveFromExtension(c)
    \/ \E c \in Conns : ReceiveRequest(E, c)
    \/ \E c \in Conns : ReceiveText(E, c)
    \/ \E c \in Conns : Destroy(c)
    \/ \E c \in Conns : Close(c)
    \/ \E extId \in 1..MaxCalls : Timeout(extId)

Next == NextOf(TwoSessions)

Spec == Init /\ [][Next]_vars

\* Native hosts that come, go and are replaced.
NextHosts == NextOf(Hosts)
SpecHosts == Init /\ [][NextHosts]_vars

\* Connections that send their text in pieces
NextLines == NextOf(Lines)
SpecLines == Init /\ [][NextLines]_vars

\* The timer of every call fires if the call is still pending (setTimeout,
\* part_001:97-101): the only scheduling the broker itself guarantees.
SpecLive == Spec /\ \A extId \in 1..MaxCalls : WF_vars(Timeout(extId))

\* ====================================================================
\* Properties.  Handlers are functions of the state and the input, so a
\* property of one step is stated for every input the step can take in a
\* reachable state, on the state it leaves and the lines it writes.
\* ====================================================================
OpenConns == {c \in Conns : clients[c].status = "open"}
BridgeConnected == host \in Conns /\ clients[host].status = "open"
Owner(cl, tabId) == IF tabId \in DOMAIN cl THEN cl[tabId].sessionId ELSE Null
Acting(c, msg) == IF msg.sessionId # Null THEN msg.sessionId ELSE clients[c].sessionId

IsResponse(w) == w.msg.type = "response"
Responses(out) == SelectSeq(out, IsResponse)
Registered(s2) == DOMAIN s2.extPending \ DOMAIN extPending

\* A tool request for a tab-scoped tool with an explicit numeric tab
TabScoped(msg) ==
    msg.op = "tool" /\ msg.tool # Null
    /\ msg.tool \notin {"get_tabs", "get_active_tab"} /\ msg.args \in Nat
\* A pending call of a tab-scoped tool itself (not the active-tab lookup before it)
TabCall(k) ==
    k.awaiting = "callExtension" /\ k.tool \notin {"get_tabs", "get_active_tab"}

\* Every bridge response there can be for ids that are pending or not
AnyFromExtension ==
    {FromExtension(id, Null, res) : id \in 0..(MaxCalls + 1), res \in Results}
    \cup {FromExtension(id, e, NoResult) : id \in 0..(MaxCalls + 1), e \in BridgeErrors}

\* ------------------------------------------------------------------- C1
\* C1: a tool request of a tab-scoped tool with an explicit numeric tabId that
\* another session owns is answered by one failed response naming the owner,
\* and nothing else happens: no call id, no pending entry, no line to the host.
C1_DeniedNotForwarded ==
    \A c \in Conns, now \in Clock : \A msg \in Requests(TwoSessions, St, c) :
        (/\ TabScoped(msg)
         /\ Owner(claims, msg.args) \notin {Null, Acting(c, msg)})
        => LET r == handleClientMessage(St, c, msg, now)
           IN /\ Len(r.out) = 1
              /\ r.out[1].to = c
              /\ r.out[1].msg.type = "response"
              /\ r.out[1].msg.id = msg.id
              /\ r.out[1].msg.ok = FALSE
              /\ r.out[1].msg.error.kind = "owned"
              /\ r.out[1].msg.error.tabId = msg.args
              /\ r.out[1].msg.error.owner = Owner(claims, msg.args)
              /\ r.s = St

\* A session can ask for a tab another session owns while the host is connected,
\* and is refused.
C1_Witness ==
    /\ BridgeConnected
    /\ \E c \in Conns : \E msg \in Requests(TwoSessions, St, c) :
          /\ TabScoped(msg)
          /\ Owner(claims, msg.args) \notin {Null, Acting(c, msg)}
          /\ ~handleClientMessage(St, c, msg, 0).out[1].msg.ok

\* ------------------------------------------------------------------- C2
\* C2: while a tab-scoped call of one session on tab T is in flight and that
\* session has not given T up (release, forced claim by the other, disconnect),
\* no tab-scoped call of another session on T is forwarded: of two such calls
\* in flight together, the earlier one (lower call id) has been given up.
C2_NoInterference ==
    \A i, j \in DOMAIN extPending :
        (/\ i < j
         /\ TabCall(extPending[i]) /\ TabCall(extPending[j])
         /\ extPending[i].tabId = extPending[j].tabId
         /\ extPending[i].sessionId # extPending[j].sessionId)
        => hist[i].excused

\* ------------------------------------------------------------------- C3
\* A first-touch request is forwarded: one pending entry under the next call id
\* and one line to the host, nothing to the session yet.
FirstTouchForwarded ==
    \A c \in Conns, now \in Clock : \A msg \in Requests(TwoSessions, St, c) :
        (TabScoped(msg) /\ Owner(claims, msg.args) = Null /\ BridgeConnected)
        => LET r == handleClientMessage(St, c, msg, now)
           IN /\ Registered(r.s) = {nextExtId + 1}
              /\ r.s.nextExtId = nextExtId + 1
              /\ r.s.claims = claims
              /\ Len(r.out) = 1
              /\ r.out[1].to = host
              /\ r.out[1].msg = [type |-> "to_extension", id |-> nextExtId + 1,
                                 tool |-> msg.tool, tabId |-> msg.args]

\* C3 (as stated): a tab-scoped request of session S on an unowned tab T is
\* forwarded, and when the host answers with success the table maps T to S and
\* S gets ok=true with the host's result unchanged.  Stated for the request and
\* the host's answer to it as the next thing that happens.
C3_FirstTouchClaimsT ==
    /\ FirstTouchForwarded
    /\ \A c \in Conns, now \in Clock : \A msg \in Requests(TwoSessions, St, c) :
          (TabScoped(msg) /\ Owner(claims, msg.args) = Null /\ BridgeConnected)
          => \A res \in Results :
                LET forwarded == handleClientMessage(St, c, msg, now).s
                    r == handleClientMessage(forwarded, host,
                                             FromExtension(nextExtId + 1, Null, res), now)
                IN /\ Owner(r.s.claims, msg.args) = Acting(c, msg)
                   /\ Len(r.out) = 1
                   /\ r.out[1].to = c
                   /\ r.out[1].msg.id = msg.id
                   /\ r.out[1].msg.ok
                   /\ r.out[1].msg.data = res

\* C3 (amended): a tab-scoped request of session S on an unowned tab T is
\* forwarded when a host is connected, and when the host answers with success
\* the effective tab (the tabId the result carries if it is a number, else T) is
\* claimed for S if it has no owner at that moment and the table is unchanged
\* otherwise; the response ok=true with the host's result unchanged is written
\* to the requesting connection under the request's id.  The answer may come
\* at any later time, so it is stated for every tab-scoped call in flight.
C3_FirstTouchClaimsEffectiveTab ==
    /\ FirstTouchForwarded
    /\ \A id \in DOMAIN extPending :
          TabCall(extPending[id])
          => \A c \in OpenConns, res \in Results, now \in Clock :
                LET k == extPending[id]
                    r == handleClientMessage(St, c, FromExtension(id, Null, res), now)
                    used == IF res.tabId \in Nat THEN res.tabId ELSE k.tabId
                IN /\ r.s.claims =
                        IF used \in DOMAIN claims THEN claims
                        ELSE [x \in DOMAIN claims \cup {used} |->
                                 IF x = used
                                 THEN [sessionId |-> k.sessionId, claimedAt |-> now]
                                 ELSE claims[x]]
                   /\ DOMAIN r.s.extPending = DOMAIN extPending \ {id}
                   /\ r.s.nextExtId = nextExtId /\ r.s.host = host
                   /\ Len(r.out) = 1
                   /\ r.out[1].to = k.pluginSocket
                   /\ r.out[1].msg.type = "response"
                   /\ r.out[1].msg.id = k.requestId
                   /\ r.out[1].msg.ok
                   /\ r.out[1].msg.data = res

\* A tab-scoped call is in flight on a tab that another session has claimed
\* since, and the host can answer it naming the other tab, which is free.
C3_Witness ==
    \E id \in DOMAIN extPending :
        /\ TabCall(extPending[id])
        /\ extPending[id].pluginSocket \in OpenConns
        /\ Owner(claims, extPending[id].tabId) \notin {Null, extPending[id].sessionId}
        /\ host \in OpenConns
        /\ \E res \in Results :
              /\ res.tabId \in Nat /\ res.tabId # extPending[id].tabId
              /\ Owner(claims, res.tabId) = Null
              /\ Owner(handleClientMessage(St, host, FromExtension(id, Null, res), 0).s.claims,
                       res.tabId) = extPending[id].sessionId

\* ------------------------------------------------------------------- C4
Gone(sessionId) == \A c \in Conns : clients[c].sessionId # sessionId

\* C4: once the close of a session's connection has released a tab the
\* session owned, and the session has no connection, no later step makes the
\* session the owner of that tab again, whatever calls it had in flight.
C4_ReleasedByCloseStaysReleased ==
    [][\A id \in DOMAIN extPending :
          (hist[id].freed /\ Gone(extPending[id].sessionId))
          => Owner(claims', extPending[id].tabId) # extPending[id].sessionId]_vars

\* ------------------------------------------------------------------- C5
\* The continuation stored under id has run once and id has left the table:
\* it answered its request, or it went on to its next call under a new id.
Completes(r, id) ==
    /\ id \notin DOMAIN r.s.extPending
    /\ \A j \in DOMAIN extPending \ {id} :
          j \in DOMAIN r.s.extPending /\ r.s.extPending[j] = extPending[j]
    /\ Registered(r.s) \subseteq {nextExtId + 1}
    /\ Len(Responses(r.out)) + Cardinality(Registered(r.s)) = 1

\* C5: every registered call id is completed exactly once.  Ids in the table
\* are at most the counter and new ones are above it, so an id that has left
\* never returns; a host response, the timer and the host's close each remove
\* the id and run its continuation once; a response for an id that is not in
\* the table changes nothing and writes nothing; requests complete nothing.
C5_CompletedExactlyOnce ==
    /\ DOMAIN extPending \subseteq 1..nextExtId
    /\ \A c \in OpenConns, now \in Clock :
          /\ \A msg \in AnyFromExtension :
                LET r == handleClientMessage(St, c, msg, now)
                IN IF msg.id \in DOMAIN extPending
                   THEN Completes(r, msg.id)
                   ELSE r.s = St /\ r.out = <<>>
          /\ \A msg \in Requests(TwoSessions, St, c) :
                LET r == handleClientMessage(St, c, msg, now)
                IN /\ \A j \in DOMAIN extPending :
                         j \in DOMAIN r.s.extPending /\ r.s.extPending[j] = extPending[j]
                   /\ Registered(r.s) \subseteq {nextExtId + 1}
                   /\ r.s.nextExtId = nextExtId + Cardinality(Registered(r.s))
    /\ \A id \in DOMAIN extPending : Completes(timeoutHandler(St, id), id)
    /\ \A c \in Conns :
          clients[c].status # "closed"
          => LET r == closeHandler(St, c)
             IN IF host = c
                THEN /\ r.s.extPending = Empty
                     /\ Len(Responses(r.out)) = Cardinality(DOMAIN extPending)
                ELSE /\ DOMAIN r.s.extPending = DOMAIN extPending
                     /\ r.out = <<>>

\* A call has been completed while another is in flight, and the host is
\* there to answer either id.
C5_Witness ==
    /\ BridgeConnected
    /\ \E id \in 1..nextExtId : id \notin DOMAIN extPending
    /\ \E id \in DOMAIN extPending :
          Completes(handleClientMessage(St, host, FromExtension(id, Null, NoResult), 0), id)

\* ------------------------------------------------------------------- C6
\* C6: when the connection the host reference points at closes while calls
\* are pending, every pending call fails with "Native host disconnected", the
\* host reference is cleared and the table is empty.
C6_BridgeCloseFailsAll ==
    \A c \in Conns :
        (host = c /\ clients[c].status # "closed" /\ extPending # Empty)
        => LET r == closeHandler(St, c)
           IN /\ r.s.host = Null
              /\ r.s.extPending = Empty
              /\ Len(r.out) = Cardinality(DOMAIN extPending)
              /\ \A i \in 1..Len(r.out) :
                    /\ r.out[i].msg.type = "response"
                    /\ ~r.out[i].msg.ok
                    /\ r.out[i].msg.error.kind = "Native host disconnected"

\* ------------------------------------------------------------------- C7
\* C7: a request's call is registered for the connection and the id of the
\* request; a host response for call id k writes responses only to the
\* connection stored under k, under the request id stored under k, carrying on
\* success that response's result; a call that follows keeps both; every other
\* line goes to the host.
C7_Demultiplexed ==
    \A c \in OpenConns, now \in Clock :
        /\ \A msg \in Requests(TwoSessions, St, c) :
              LET r == handleClientMessage(St, c, msg, now)
              IN /\ \A id \in Registered(r.s) :
                       /\ r.s.extPending[id].pluginSocket = c
                       /\ r.s.extPending[id].requestId = msg.id
                       /\ r.s.extPending[id].sessionId = Acting(c, msg)
                 /\ \A i \in 1..Len(r.out) :
                       IF IsResponse(r.out[i])
                       THEN r.out[i].to = c /\ r.out[i].msg.id = msg.id
                       ELSE r.out[i].to = host
        /\ \A msg \in FromExtensionMsgs(St) :
              msg.id \in DOMAIN extPending
              => LET k == extPending[msg.id]
                     r == handleClientMessage(St, c, msg, now)
                 IN /\ \A id \in Registered(r.s) :
                          /\ r.s.extPending[id].pluginSocket = k.pluginSocket
                          /\ r.s.extPending[id].requestId = k.requestId
                          /\ r.s.extPending[id].sessionId = k.sessionId
                    /\ \A i \in 1..Len(r.out) :
                          IF IsResponse(r.out[i])
                          THEN /\ r.out[i].to = k.pluginSocket
                               /\ r.out[i].msg.id = k.requestId
                               /\ r.out[i].msg.ok => r.out[i].msg.data = msg.result
                          ELSE r.out[i].to = host

\* Two sessions have calls in flight under the same request id, and the host
\* answers the later call first.
C7_Witness ==
    /\ BridgeConnected
    /\ \E i, j \in DOMAIN extPending :
          /\ i < j
          /\ extPending[i].pluginSocket \in OpenConns
          /\ extPending[j].pluginSocket \in OpenConns
          /\ extPending[i].pluginSocket # extPending[j].pluginSocket
          /\ extPending[i].requestId = extPending[j].requestId
          /\ LET r == handleClientMessage(St, host, FromExtension(j, Null, NoResult), 0)
             IN /\ r.out[1].to = extPending[j].pluginSocket
                /\ i \in DOMAIN r.s.extPending

\* ------------------------------------------------------------------- C8
\* Request i of connection c is waiting for a call.
Outstanding(c, i) ==
    \E id \in DOMAIN extPending :
        extPending[id].pluginSocket = c /\ extPending[id].requestId = i

\* The step answers the request (c, i) once, or leaves it waiting for one call.
AnswersOrAwaits(r, c, i) ==
    /\ Len(Responses(r.out)) + Cardinality(Registered(r.s)) = 1
    /\ \A n \in 1..Len(r.out) :
          IsResponse(r.out[n]) => r.out[n].to = c /\ r.out[n].msg.id = i
    /\ \A id \in Registered(r.s) :
          r.s.extPending[id].pluginSocket = c /\ r.s.extPending[id].requestId = i

\* No request is answered twice and none is dropped by a step: a request is
\* answered at once or waits for exactly one call; the end of that call
\* (response, timer, host's close) answers it once or makes it wait for its
\* next call; nothing else writes a response.
C8_AnsweredOnce ==
    /\ \A i, j \in DOMAIN extPending :
          (/\ i # j /\ extPending[i].pluginSocket \in Conns
           /\ extPending[i].pluginSocket = extPending[j].pluginSocket)
          => extPending[i].requestId # extPending[j].requestId
    /\ \A c \in OpenConns, now \in Clock :
          /\ \A msg \in Requests(TwoSessions, St, c) :
                AnswersOrAwaits(handleClientMessage(St, c, msg, now), c, msg.id)
          /\ \A msg \in AnyFromExtension :
                LET r == handleClientMessage(St, c, msg, now)
                IN IF msg.id \in DOMAIN extPending
                   THEN AnswersOrAwaits(r, extPending[msg.id].pluginSocket,
                                        extPending[msg.id].requestId)
                   ELSE r.out = <<>>
          /\ \A msg \in TwoSessions.hello[c] :
                Responses(handleClientMessage(St, c, msg, now).out) = <<>>
    /\ \A id \in DOMAIN extPending :
          AnswersOrAwaits(timeoutHandler(St, id), extPending[id].pluginSocket,
                          extPending[id].requestId)
    /\ \A c \in Conns :
          clients[c].status # "closed"
          => LET r == closeHandler(St, c)
             IN IF host = c
                THEN /\ r.s.extPending = Empty
                     /\ Len(r.out) = Cardinality(DOMAIN extPending)
                     /\ \A id \in DOMAIN extPending :
                           extPending[id].pluginSocket # c
                           => \E n \in 1..Len(r.out) :
                                 /\ IsResponse(r.out[n])
                                 /\ r.out[n].to = extPending[id].pluginSocket
                                 /\ r.out[n].msg.id = extPending[id].requestId
                ELSE r.out = <<>>

\* C8: every request of a connection that stays open is answered, exactly
\* once, on that connection and under its id: a request that waits for a call
\* always comes to wait no longer (whenever it is outstanding it is later not,
\* written []<>), and the step that ends its wait answers it once
\* (C8_AnsweredOnce).
C8_EveryRequestAnswered ==
    /\ []C8_AnsweredOnce
    /\ \A c \in Conns, i \in ReqIds : []<>~Outstanding(c, i)

\* A request waits for a call written to a host whose socket is gone: only the
\* timer is left to answer it.
C8_Witness ==
    /\ ~BridgeConnected
    /\ \E c \in OpenConns, i \in ReqIds : Outstanding(c, i)

\* ------------------------------------------------------------------- C9
\* C9: with no host connected (none, or its socket destroyed), a tool call that
\* is to be forwarded fails at once with the host-offline error and registers
\* nothing: a request leaves the whole state as it was; a call that follows the
\* active-tab lookup leaves counter, claims and the other entries as they were.
C9_OfflineRegistersNothing ==
    ~BridgeConnected
    => \A c \in OpenConns, now \in Clock :
          /\ \A msg \in Requests(TwoSessions, St, c) :
                (/\ msg.op = "tool" /\ msg.tool # Null
                 /\ TabScoped(msg) => Owner(claims, msg.args) \in {Null, Acting(c, msg)})
                => LET r == handleClientMessage(St, c, msg, now)
                   IN /\ r.s = St
                      /\ Len(r.out) = 1
                      /\ r.out[1].to = c
                      /\ r.out[1].msg.id = msg.id
                      /\ ~r.out[1].msg.ok
                      /\ r.out[1].msg.error.kind =
                            "Chrome extension is not connected (native host offline)"
          /\ \A id \in DOMAIN extPending, res \in Results :
                (/\ extPending[id].awaiting = "resolveActiveTab"
                 /\ res.tabId \in Nat \ {0}
                 /\ Owner(claims, res.tabId) \in {Null, extPending[id].sessionId})
                => LET r == handleClientMessage(St, c, FromExtension(id, Null, res), now)
                   IN /\ r.s = [St EXCEPT !.extPending =
                                   [x \in DOMAIN @ \ {id} |-> @[x]]]
                      /\ Len(r.out) = 1
                      /\ r.out[1].to = extPending[id].pluginSocket
                      /\ ~r.out[1].msg.ok
                      /\ r.out[1].msg.error.kind =
                            "Chrome extension is not connected (native host offline)"

\* The host's socket has been destroyed after calls were forwarded to it, and
\* a session asks for a tool on a tab it may use.
C9_Witness ==
    /\ host \in Conns /\ clients[host].status = "destroyed"
    /\ nextExtId > 0
    /\ \E c \in OpenConns : \E msg \in Requests(TwoSessions, St, c) :
          /\ TabScoped(msg)
          /\ Owner(claims, msg.args) = Acting(c, msg)
          /\ ~handleClientMessage(St, c, msg, 0).out[1].msg.ok

\* ------------------------------------------------------------------- C10
\* C10: a successful claim_tab on R makes its session the owner of R, a
\* successful release_tab leaves R without owner, a failed one changes no
\* owner, and none of them touches another tab; so after any sequence of them
\* the owner of R is the last successful claimant unless a successful release
\* followed.
C10_LastSuccessfulClaimant ==
    \A c \in Conns, now \in Clock : \A msg \in Requests(TwoSessions, St, c) :
        msg.op \in {"claim_tab", "release_tab"}
        => LET r == handleClientMessage(St, c, msg, now)
           IN /\ Len(r.out) = 1
              /\ IsResponse(r.out[1])
              /\ (r.out[1].msg.ok /\ msg.op = "claim_tab")
                    => Owner(r.s.claims, msg.tabId) = Acting(c, msg)
              /\ (r.out[1].msg.ok /\ msg.op = "release_tab")
                    => Owner(r.s.claims, msg.tabId) = Null
              /\ ~r.out[1].msg.ok => r.s.claims = claims
              /\ \A t \in Tabs \ {msg.tabId} : Owner(r.s.claims, t) = Owner(claims, t)

\* A tab owned by one session can be taken by force by the other, a claim
\* without force by the other fails, and the owner can release it.
C10_Witness ==
    \E R \in Tabs, c, d \in Conns :
        /\ Owner(claims, R) = clients[c].sessionId
        /\ clients[c].sessionId # Null /\ clients[d].sessionId # Null
        /\ clients[c].sessionId # clients[d].sessionId
        /\ \E m1, m2 \in Requests(TwoSessions, St, d), m3 \in Requests(TwoSessions, St, c) :
              /\ m1.op = "claim_tab" /\ m1.tabId = R /\ m1.force
              /\ Owner(handleClientMessage(St, d, m1, 0).s.claims, R) = clients[d].sessionId
              /\ m2.op = "claim_tab" /\ m2.tabId = R /\ ~m2.force
              /\ ~handleClientMessage(St, d, m2, 0).out[1].msg.ok
              /\ m3.op = "release_tab" /\ m3.tabId = R
              /\ Owner(handleClientMessage(St, c, m3, 0).s.claims, R) = Null

\* ------------------------------------------------------------------- C11
\* The rest of the broker state is as it was.
SameButClaims(s2) ==
    /\ s2.clients = clients /\ s2.host = host
    /\ s2.nextExtId = nextExtId /\ s2.extPending = extPending

\* The step wrote one response to c under the request's id.
OneResponse(r, c, msg) ==
    /\ Len(r.out) = 1
    /\ r.out[1].to = c
    /\ r.out[1].msg.type = "response"
    /\ r.out[1].msg.id = msg.id

\* The response of the step is the ownership conflict naming `owner`.
Conflict(r, tabId, owner) ==
    /\ ~r.out[1].msg.ok
    /\ r.out[1].msg.error.kind = "owned"
    /\ r.out[1].msg.error.tabId = tabId
    /\ r.out[1].msg.error.owner = owner

\* C11: release_tab on a tab owned by another session fails with the conflict
\* error naming the owner and changes nothing; on an unclaimed tab it succeeds
\* and changes nothing; by the owner it succeeds and removes that claim only.
C11_ReleaseTab ==
    \A c \in Conns, now \in Clock : \A msg \in Requests(TwoSessions, St, c) :
        (msg.op = "release_tab" /\ msg.tabId \in Nat)
        => LET r == handleClientMessage(St, c, msg, now)
               owner == Owner(claims, msg.tabId)
           IN /\ OneResponse(r, c, msg)
              /\ owner = Null => (r.out[1].msg.ok /\ r.s = St)
              /\ owner \notin {Null, Acting(c, msg)}
                    => (Conflict(r, msg.tabId, owner) /\ r.s = St)
              /\ owner = Acting(c, msg)
                    => /\ r.out[1].msg.ok
                       /\ SameButClaims(r.s)
                       /\ DOMAIN r.s.claims = DOMAIN claims \ {msg.tabId}
                       /\ \A t \in DOMAIN r.s.claims : r.s.claims[t] = claims[t]

\* One tab is owned and another is not, owner and another session are both
\* connected: the other's release of the owned tab is refused, its release of
\* the free tab succeeds, and the owner's release frees the tab.
C11_Witness ==
    \E c, d \in OpenConns, R, F \in Tabs :
        /\ Owner(claims, R) = clients[c].sessionId /\ clients[c].sessionId # Null
        /\ Owner(claims, F) = Null
        /\ clients[d].sessionId \notin {Null, clients[c].sessionId}
        /\ \E m1, m2 \in Requests(TwoSessions, St, d), m3 \in Requests(TwoSessions, St, c) :
              /\ m1.op = "release_tab" /\ m1.tabId = R
              /\ ~handleClientMessage(St, d, m1, 0).out[1].msg.ok
              /\ m2.op = "release_tab" /\ m2.tabId = F
              /\ handleClientMessage(St, d, m2, 0).out[1].msg.ok
              /\ m3.op = "release_tab" /\ m3.tabId = R
              /\ R \notin DOMAIN handleClientMessage(St, c, m3, 0).s.claims

\* ------------------------------------------------------------------- C12
\* C12: claim_tab without force on a tab owned by another session fails with
\* the conflict error naming the owner and changes nothing; on an unclaimed tab
\* or on the caller's own tab it succeeds and records the caller, stamped with
\* the time of the request, touching no other claim.
C12_ClaimTabWithoutForce ==
    \A c \in Conns, now \in Clock : \A msg \in Requests(TwoSessions, St, c) :
        (msg.op = "claim_tab" /\ msg.tabId \in Nat /\ ~msg.force)
        => LET r == handleClientMessage(St, c, msg, now)
               owner == Owner(claims, msg.tabId)
           IN /\ OneResponse(r, c, msg)
              /\ owner \notin {Null, Acting(c, msg)}
                    => (Conflict(r, msg.tabId, owner) /\ r.s = St)
              /\ owner \in {Null, Acting(c, msg)}
                    => /\ r.out[1].msg.ok
                       /\ SameButClaims(r.s)
                       /\ DOMAIN r.s.claims = DOMAIN claims \cup {msg.tabId}
                       /\ r.s.claims[msg.tabId] =
                             [sessionId |-> Acting(c, msg), claimedAt |-> now]
                       /\ \A t \in DOMAIN claims \ {msg.tabId} : r.s.claims[t] = claims[t]

\* A session can claim a free tab and its own tab, and is refused a tab of the
\* other session.
C12_Witness ==
    \E c \in OpenConns, R, F \in Tabs :
        /\ clients[c].sessionId # Null
        /\ Owner(claims, R) \notin {Null, clients[c].sessionId}
        /\ Owner(claims, F) = Null
        /\ \E m1, m2 \in Requests(TwoSessions, St, c) :
              /\ m1.op = "claim_tab" /\ m1.tabId = R /\ ~m1.force
              /\ ~handleClientMessage(St, c, m1, 0).out[1].msg.ok
              /\ m2.op = "claim_tab" /\ m2.tabId = F /\ ~m2.force
              /\ Owner(handleClientMessage(St, c, m2, 0).s.claims, F) = clients[c].sessionId

\* ------------------------------------------------------------------- C13
\* C13: claim_tab with force by session B on a tab R owned by session A
\* succeeds and makes B the owner.  In the state it leaves, checkClaim denies A
\* on R, every tab-scoped tool request A can send on R is refused with the
\* conflict error naming B and leaves that state as it is, and a request of A
\* that was waiting for the active tab and learns that it is R is refused too,
\* with nothing forwarded.
C13_ForcedClaimTransfers ==
    \A d \in Conns, now \in Clock : \A msg \in Requests(TwoSessions, St, d) :
        (/\ msg.op = "claim_tab" /\ msg.tabId \in Nat /\ msg.force
         /\ Owner(claims, msg.tabId) \notin {Null, Acting(d, msg)})
        => LET A == Owner(claims, msg.tabId)
               B == Acting(d, msg)
               R == msg.tabId
               r == handleClientMessage(St, d, msg, now)
           IN /\ OneResponse(r, d, msg)
              /\ r.out[1].msg.ok
              /\ Owner(r.s.claims, R) = B
              /\ ~checkClaim(r.s.claims, R, A).ok
              /\ \A c \in Conns : \A m \in Requests(TwoSessions, r.s, c) :
                    (/\ TabScoped(m) /\ m.args = R
                     /\ m.sessionId = Null /\ r.s.clients[c].sessionId = A)
                    => LET q == handleClientMessage(r.s, c, m, now)
                       IN /\ q.s = r.s
                          /\ OneResponse(q, c, m)
                          /\ Conflict(q, R, B)
              /\ \A id \in DOMAIN r.s.extPending, c \in OpenConns :
                    (/\ r.s.extPending[id].awaiting = "resolveActiveTab"
                     /\ r.s.extPending[id].sessionId = A)
                    => LET q == handleClientMessage(r.s, c,
                                    FromExtension(id, Null, [tabId |-> R]), now)
                       IN /\ DOMAIN q.s.extPending = DOMAIN r.s.extPending \ {id}
                          /\ q.s.nextExtId = r.s.nextExtId
                          /\ q.s.claims = r.s.claims
                          /\ Len(q.out) = 1
                          /\ q.out[1].to = r.s.extPending[id].pluginSocket
                          /\ Conflict(q, R, B)

\* Session A owns a tab and can send a tool request on it, session B can take
\* the tab by force, and after that A's request on the tab is refused.
C13_Witness ==
    \E c, d \in OpenConns, R \in Tabs :
        /\ clients[c].sessionId # Null
        /\ Owner(claims, R) = clients[c].sessionId
        /\ clients[d].sessionId \notin {Null, clients[c].sessionId}
        /\ BridgeConnected
        /\ \E m \in Requests(TwoSessions, St, d) :
              /\ m.op = "claim_tab" /\ m.tabId = R /\ m.force
              /\ LET s2 == handleClientMessage(St, d, m, 0).s
                 IN /\ Owner(s2.claims, R) = clients[d].sessionId
                    /\ \E t \in Requests(TwoSessions, s2, c) :
                          /\ TabScoped(t) /\ t.args = R
                          /\ ~handleClientMessage(s2, c, t, 0).out[1].msg.ok

\* ------------------------------------------------------------------- C14
\* Times at which a response can arrive: those of the claims, and later ones.
Times == Clock \cup {t + 1 : t \in Clock}

\* C14: a successful tool call whose effective tab (the tabId of the result if
\* it is a number, else the tab of the call) already has an owner leaves the
\* Ownership Table as it is, owner and claimedAt, at whatever time the response
\* arrives; and sending a tool request changes no claim.  So repeated tool
\* calls of the owner never re-attribute or re-stamp its claim.
C14_AutoClaimIdempotent ==
    /\ \A id \in DOMAIN extPending :
          extPending[id].awaiting = "callExtension"
          => \A c \in OpenConns, res \in Results, now \in Times :
                LET k == extPending[id]
                    used == IF res.tabId \in Nat THEN res.tabId ELSE k.tabId
                    r == handleClientMessage(St, c, FromExtension(id, Null, res), now)
                IN used \in DOMAIN claims
                   => /\ r.s.claims = claims
                      /\ Len(r.out) = 1
                      /\ r.out[1].msg.ok
    /\ \A c \in Conns, now \in Times : \A msg \in Requests(TwoSessions, St, c) :
          msg.op = "tool" => handleClientMessage(St, c, msg, now).s.claims = claims

\* The owner of a tab has a call in flight on it, and the host answers it
\* after the time the claim was stamped with.
C14_Witness ==
    \E id \in DOMAIN extPending :
        /\ TabCall(extPending[id])
        /\ Owner(claims, extPending[id].tabId) = extPending[id].sessionId
        /\ extPending[id].pluginSocket \in OpenConns
        /\ host \in OpenConns
        /\ \E now \in Times :
              /\ now > claims[extPending[id].tabId].claimedAt
              /\ handleClientMessage(St, host, FromExtension(id, Null, NoResult), now).s.claims
                    = claims

\* ------------------------------------------------------------------- C15
\* C15: the close of the native host's connection leaves the Ownership Table
\* as it is: every claim is still there, with the same owner.
C15_BridgeCloseKeepsClaims ==
    \A c \in Conns :
        (host = c /\ clients[c].role = "native-host" /\ clients[c].status # "closed")
        => closeHandler(St, c).s.claims = claims

\* ------------------------------------------------------------------- C16
\* Tool requests for the two tools that act on no tab
ExemptRequests ==
    {Request(id, "tool", o, NoTab, FALSE, tool, a) :
        id \in ReqIds, o \in Sessions \cup {Null},
        tool \in {"get_tabs", "get_active_tab"}, a \in Tabs \cup {NoTab}}

\* C16: a request for get_tabs or get_active_tab is never refused on
\* ownership grounds.  Whatever the Ownership Table holds and whatever tab its
\* arguments name, with the bridge connected the request is forwarded: one
\* call is registered for the requester, one line goes to the bridge with the
\* tool and arguments as given, no response is written and no claim changes.
C16_ExemptToolsForwarded ==
    \A c \in OpenConns, now \in Clock : \A msg \in ExemptRequests :
        BridgeConnected
        => LET r == handleClientMessage(St, c, msg, now)
               extId == nextExtId + 1
           IN /\ Len(r.out) = 1
              /\ r.out[1].to = host
              /\ r.out[1].msg.type = "to_extension"
              /\ r.out[1].msg.id = extId
              /\ r.out[1].msg.tool = msg.tool
              /\ r.out[1].msg.tabId = msg.args
              /\ Registered(r.s) = {extId}
              /\ r.s.extPending[extId].pluginSocket = c
              /\ r.s.extPending[extId].requestId = msg.id
              /\ r.s.claims = claims

\* Reached: a session asks get_tabs with the tab of another session as
\* argument, and the call goes to the bridge.
C16_Witness ==
    \E c \in OpenConns, R \in Tabs :
        /\ BridgeConnected
        /\ clients[c].sessionId # Null
        /\ Owner(claims, R) \notin {Null, clients[c].sessionId}
        /\ LET r == handleClientMessage(St, c,
                        Request(1, "tool", Null, NoTab, FALSE, "get_tabs", R), 0)
           IN /\ Len(r.out) = 1
              /\ r.out[1].to = host
              /\ r.out[1].msg.tool = "get_tabs"
              /\ r.out[1].msg.tabId = R

\* ------------------------------------------------------------------- C18
\* Requests that break the protocol: an operation the broker does not know,
\* claim_tab or release_tab without a numeric tabId, tool without a tool name
ProtocolErrors ==
    {Request(id, "bogus", o, t, f, Null, NoTab) :
        id \in ReqIds, o \in Sessions \cup {Null}, t \in Tabs \cup {NoTab}, f \in BOOLEAN}
    \cup {Request(id, op, o, NoTab, f, Null, NoTab) :
            id \in ReqIds, op \in {"claim_tab", "release_tab"},
            o \in Sessions \cup {Null}, f \in BOOLEAN}
    \cup {Request(id, "tool", o, NoTab, FALSE, Null, a) :
            id \in ReqIds, o \in Sessions \cup {Null}, a \in Tabs \cup {NoTab}}

\* C18: a request with an unknown operation, a claim_tab or release_tab with
\* no numeric tabId, or a tool request with no tool name gets one failed
\* response on its own connection; the Ownership Table and the Pending-Call
\* Table (and the rest of the state) stay as they were, and no line goes to
\* the bridge.
C18_ProtocolErrorsRefused ==
    \A c \in OpenConns, now \in Clock : \A msg \in ProtocolErrors :
        LET r == handleClientMessage(St, c, msg, now)
        IN /\ OneResponse(r, c, msg)
           /\ ~r.out[1].msg.ok
           /\ r.out[1].msg.error.kind =
                 (CASE msg.op = "bogus" -> "Unknown op"
                    [] msg.op = "tool" -> "Missing tool"
                    [] OTHER -> "tabId is required")
           /\ r.s = St
           /\ \A i \in 1..Len(r.out) : r.out[i].msg.type # "to_extension"

\* Reached: claims and pending calls exist and the bridge is connected when a
\* tool request without a tool name is refused.
C18_Witness ==
    \E c \in OpenConns :
        /\ BridgeConnected /\ c # host
        /\ DOMAIN claims # {} /\ DOMAIN extPending # {}
        /\ LET r == handleClientMessage(St, c,
                        Request(1, "tool", Null, NoTab, FALSE, Null, 1), 0)
           IN ~r.out[1].msg.ok /\ r.s = St

\* ------------------------------------------------------------------- C20
\* Every tool request a connection can send, with or without a tab
AnyToolRequest ==
    {Request(id, "tool", o, NoTab, FALSE, tool, a) :
        id \in ReqIds, o \in Sessions \cup {Null}, tool \in Tools, a \in Tabs \cup {NoTab}}

\* Each tab-scoped call the step r wrote to the bridge was registered by that
\* step for a tab that, in the Ownership Table as it was when the step began
\* and as it is when the step ends, is unclaimed or owned by the requester.
ForwardsChecked(r) ==
    \A i \in 1..Len(r.out) :
        (/\ r.out[i].msg.type = "to_extension"
         /\ r.out[i].msg.tool \notin {"get_tabs", "get_active_tab"})
        => LET extId == r.out[i].msg.id
               tabId == r.out[i].msg.tabId
           IN /\ extId \in Registered(r.s)
              /\ tabId \in Nat
              /\ r.s.extPending[extId].tabId = tabId
              /\ r.s.claims = claims
              /\ Owner(claims, tabId) \in {Null, r.s.extPending[extId].sessionId}

\* C20: when a tab-scoped call is written to the bridge, its tab is unclaimed
\* or owned by the requesting session, and the table was not touched between
\* the check and the write.  This covers both places a call is written: the
\* request handler for an explicit tab, and the continuation that runs when
\* the active-tab lookup is answered.
C20_CheckedWhenForwarded ==
    \A c \in OpenConns, now \in Clock :
        /\ \A msg \in AnyToolRequest :
               LET r == handleClientMessage(St, c, msg, now)
               IN /\ ForwardsChecked(r)
                  /\ \A extId \in Registered(r.s) :
                         r.s.extPending[extId].sessionId = Acting(c, msg)
        /\ \A msg \in AnyFromExtension :
               ForwardsChecked(handleClientMessage(St, c, msg, now))

\* Reached: a request waits for the active tab while the other session owns a
\* tab; the lookup answers with a free tab and the call is written.
C20_Witness ==
    \E extId \in DOMAIN extPending, R \in Tabs, F \in Tabs :
        /\ BridgeConnected
        /\ extPending[extId].awaiting = "resolveActiveTab"
        /\ Owner(claims, R) \notin {Null, extPending[extId].sessionId}
        /\ Owner(claims, F) = Null
        /\ LET r == handleClientMessage(St, host,
                        FromExtension(extId, Null, [tabId |-> F]), 0)
           IN /\ Len(r.out) = 1
              /\ r.out[1].to = host
              /\ r.out[1].msg.type = "to_extension"
              /\ r.out[1].msg.tabId = F

\* ------------------------------------------------------------------- C19
\* The state after connection c has ended, a new connection has been accepted
\* in its place and has said hello as a session with identifier `sessionId`
Reconnected(c, sessionId) ==
    handleClientMessage(connectionListener(closeHandler(St, c).s, c), c,
                        Hello("plugin", sessionId), 0).s

\* C19: a session that reconnects with the same identifier still owns, after
\* the new connection's handshake, the tabs it owned before its previous
\* connection ended; if it reconnects with another identifier, its tool
\* requests on those tabs are refused with the conflict naming the old one.
C19_ReconnectKeepsClaims ==
    \A c \in Conns, R \in Tabs :
        LET S == clients[c].sessionId
        IN (/\ clients[c].status # "closed"
            /\ clients[c].role # "native-host"
            /\ S # Null
            /\ Owner(claims, R) = S)
           => /\ Owner(Reconnected(c, S).claims, R) = S
              /\ \A S2 \in Sessions \ {S} :
                     LET r == handleClientMessage(Reconnected(c, S2), c,
                                  Request(1, "tool", Null, NoTab, FALSE, "click", R), 0)
                     IN /\ OneResponse(r, c, Request(1, "tool", Null, NoTab, FALSE, "click", R))
                        /\ Conflict(r, R, S)

\* ------------------------------------------------------------------- C17
\* Text a connection may send that ends no line (no newline in it)
LineTexts ==
    LET m == Request(1, "claim_tab", Null, 1, FALSE, Null, NoTab)
        h == Hello("plugin", "A")
    IN {<<Junk>>, <<Junk, Blank>>, <<Blank, Junk>>, <<Json(m), Junk>>, <<Junk, Json(m)>>,
        <<Json(m), Json(m)>>, <<Json(m), Blank, Json(h)>>, <<FirstHalf(m)>>,
        <<SecondHalf(m)>>, <<SecondHalf(h)>>, <<SecondHalf(m), FirstHalf(m)>>,
        <<FirstHalf(h), SecondHalf(m)>>, <<Json(h), SecondHalf(h)>>}

\* The line does not parse: it is not blank and it is not one JSON text.
Malformed(line) ==
    /\ \E i \in 1..Len(line) : line[i].k # "blank"
    /\ ~(\E i \in 1..Len(line) :
            /\ line[i].k = "json"
            /\ \A j \in 1..Len(line) : j # i => line[j].k = "blank")

\* What connection c may send after a line: nothing, a message, two messages,
\* or the beginning of a message.
Following(c) ==
    LET one == Lines.hello[c] \cup Requests(Lines, St, c) \cup FromExtensionMsgs(St)
    IN {<<>>}
       \cup {<<Json(m), NL>> : m \in one}
       \cup {<<Json(h), NL, Json(m), NL>> : h \in Lines.hello[c], m \in Lines.split[c]}
       \cup {<<FirstHalf(m)>> : m \in Lines.split[c]}

\* Three of them: junk, two messages on one line, a second half with no first
SomeLineTexts ==
    LET m == Request(1, "claim_tab", Null, 1, FALSE, Null, NoTab)
    IN {<<Junk>>, <<Json(m), Json(m)>>, <<SecondHalf(m), FirstHalf(m)>>}

\* C17: a line that does not parse changes no broker state, writes nothing and
\* leaves the connection open; what follows it on the same connection is
\* processed as if the connection had sent only that (state reached, lines
\* written, messages handled, text left in the buffer), and a message on
\* another connection afterwards is processed as it would have been.
C17_MalformedLineIgnored ==
    \A c \in OpenConns, now \in Clock :
        /\ \A text \in LineTexts :
               Malformed(StrConcat(buffer[c] \o text))
               => LET alone == onData(St, buffer[c], c, text \o <<NL>>, now)
                  IN /\ alone.s = St
                     /\ alone.out = <<>>
                     /\ alone.delivered = <<>>
                     /\ alone.buffer = <<>>
                     /\ alone.s.clients[c].status = "open"
        /\ \A rest \in Following(c) :
               LET asif == onData(St, <<>>, c, rest, now)
               IN \A text \in SomeLineTexts :
                      Malformed(StrConcat(buffer[c] \o text))
                      => onData(St, buffer[c], c, text \o <<NL>> \o rest, now) = asif
        /\ \A d \in OpenConns \ {c} : \A m \in Requests(Lines, St, d) :
               onData(onData(St, buffer[c], c, <<Junk, NL>>, now).s,
                      buffer[d], d, <<Json(m), NL>>, now)
                   = onData(St, buffer[d], d, <<Json(m), NL>>, now)

\* Reached: with a claim in the table and unfinished text in its buffer, a
\* session sends junk, a newline and then a claim_tab, which is carried out.
C17_Witness ==
    \E c \in OpenConns, R \in Tabs :
        /\ buffer[c] # <<>>
        /\ DOMAIN claims # {}
        /\ clients[c].sessionId # Null
        /\ Owner(claims, R) = Null
        /\ LET m == Request(2, "claim_tab", Null, R, FALSE, Null, NoTab)
               r == onData(St, buffer[c], c, <<Junk, NL, Json(m), NL>>, 0)
           IN /\ Malformed(StrConcat(buffer[c] \o <<Junk>>))
              /\ r.delivered = <<m>>
              /\ Owner(r.s.claims, R) = clients[c].sessionId

\* ------------------------------------------------------------------- C21
\* Results of a tool call on tab T: the tab echoed, or no tab in the result
ResultsOn(T) == {[tabId |-> T], NoResult}

\* Calls i and j are tool calls of two sessions in flight on the same tab,
\* which nobody owns.
Racing(i, j) ==
    /\ i # j
    /\ TabCall(extPending[i]) /\ TabCall(extPending[j])
    /\ extPending[i].sessionId # extPending[j].sessionId
    /\ extPending[i].tabId \in Nat
    /\ extPending[i].tabId = extPending[j].tabId
    /\ Owner(claims, extPending[i].tabId) = Null

NeverSentBefore(r) ==
    \A n \in 1..Len(r.out) :
        r.out[n].msg.type = "to_extension"
        => r.out[n].msg.id > nextExtId /\ r.out[n].msg.id \notin DOMAIN extPending

\* No handler writes a call a second time, and the timer of a pending call
\* discards its entry and fails the request with the timed-out error.
NoRetry ==
    /\ \A c \in OpenConns, now \in Clock :
          /\ \A msg \in AnyToolRequest \cup AnyFromExtension :
                NeverSentBefore(handleClientMessage(St, c, msg, now))
          /\ NeverSentBefore(closeHandler(St, c))
    /\ \A extId \in DOMAIN extPending :
          LET r == timeoutHandler(St, extId)
          IN /\ DOMAIN r.s.extPending = DOMAIN extPending \ {extId}
             /\ Len(r.out) = 1
             /\ r.out[1].to = extPending[extId].pluginSocket
             /\ r.out[1].msg.type = "response"
             /\ r.out[1].msg.id = extPending[extId].requestId
             /\ ~r.out[1].msg.ok
             /\ r.out[1].msg.error.kind = "Timed out waiting for extension"

\* A step that takes call extId out of the table is the bridge's response to
\* it, its timer, or the close of the bridge's connection.
RemovedByResponseTimerOrClose ==
    \A extId \in DOMAIN extPending :
        extId \notin DOMAIN extPending'
        => \/ \E c \in OpenConns, msg \in AnyFromExtension :
                 /\ msg.id = extId
                 /\ extPending' = handleClientMessage(St, c, msg, 0).s.extPending
           \/ extPending' = timeoutHandler(St, extId).s.extPending
           \/ \E c \in Conns :
                 /\ host = c /\ clients[c].role = "native-host"
                 /\ clients'[c].status = "closed"
                 /\ extPending' = Empty

\* C22: every call in the Pending-Call Table leaves it in the end; it leaves
\* by the bridge's response to it, by its timer (which fails the request with
\* the timed-out error) or by the close of the bridge's connection; and no
\* call is ever written to the bridge twice.
C22_EveryCallRemoved ==
    /\ []NoRetry
    /\ [][RemovedByResponseTimerOrClose]_vars
    /\ \A extId \in 1..MaxCalls : []<>(extId \notin DOMAIN extPending)

\* Reached: a call is pending and the bridge's socket is destroyed, so that no
\* response to it can arrive; its timer takes it out.
C22_Witness ==
    \E extId \in DOMAIN extPending :
        /\ host \in Conns /\ clients[host].status = "destroyed"
        /\ extPending[extId].pluginSocket \in OpenConns
        /\ timeoutHandler(St, extId).s.extPending = Del(extPending, extId)

\* ------------------------------------------------------------------- C23
\* The tab considered for the claim when call k succeeds with result res
EffectiveTab(k, res) == IF res.tabId \in Nat THEN res.tabId ELSE k.tabId

\* C23: when a tool's own call succeeds, the tab considered for auto-claim is
\* the one echoed in the result if the result has a numeric tabId, and the tab
\* of the request otherwise: that tab is claimed for the requester if nobody
\* owns it, and no other entry of the Ownership Table changes.  In particular
\* a requested tab that differs from the echoed one keeps its ownership.
C23_EchoedTabIsClaimed ==
    \A extId \in DOMAIN extPending, c \in OpenConns, now \in Clock, res \in Results :
        extPending[extId].awaiting = "callExtension"
        => LET k == extPending[extId]
               used == EffectiveTab(k, res)
               r == handleClientMessage(St, c, FromExtension(extId, Null, res), now)
           IN /\ \A t \in (DOMAIN claims \cup DOMAIN r.s.claims) \ {used} :
                     /\ t \in DOMAIN claims /\ t \in DOMAIN r.s.claims
                     /\ r.s.claims[t] = claims[t]
              /\ (used \in Nat /\ used \notin DOMAIN claims)
                 => /\ used \in DOMAIN r.s.claims
                    /\ r.s.claims[used].sessionId = k.sessionId
              /\ (used \in Nat /\ used \in DOMAIN claims)
                 => r.s.claims = claims
              /\ used \notin Nat => r.s.claims = claims
              /\ (res.tabId \in Nat /\ k.tabId \in Nat /\ res.tabId # k.tabId)
                 => Owner(r.s.claims, k.tabId) = Owner(claims, k.tabId)

\* Reached: a call on an unclaimed tab is answered with another unclaimed tab
\* in its result; the echoed tab is claimed and the requested one is not.
C23_Witness ==
    \E extId \in DOMAIN extPending, T \in Tabs :
        /\ BridgeConnected
        /\ extPending[extId].awaiting = "callExtension"
        /\ extPending[extId].tabId \in Nat
        /\ T # extPending[extId].tabId
        /\ Owner(claims, T) = Null
        /\ Owner(claims, extPending[extId].tabId) = Null
        /\ LET r == handleClientMessage(St, host, FromExtension(extId, Null, [tabId |-> T]), 0)
           IN /\ Owner(r.s.claims, T) = extPending[extId].sessionId
              /\ Owner(r.s.claims, extPending[extId].tabId) = Null

\* ------------------------------------------------------------------- C24
\* The pending call is the call of an exempt tool (get_tabs, get_active_tab)
\* that a session asked for.
ExemptCall(k) ==
    k.awaiting = "callExtension" /\ k.tool \in {"get_tabs", "get_active_tab"}

\* C24: when the call of an exempt tool succeeds and its result echoes a tab
\* id, or else its arguments named one, that tab becomes claimed for the
\* requesting session if nobody owns it, and the table stays as it is if
\* somebody does (or if there is no such tab).  The active-tab lookup the
\* broker issues on its own creates no claim, however it is answered.
C24_ExemptToolsAutoClaim ==
    \A extId \in DOMAIN extPending, c \in OpenConns, now \in Clock :
        LET k == extPending[extId]
        IN /\ ExemptCall(k)
              => \A res \in Results :
                    LET T == IF res.tabId \in Nat THEN res.tabId ELSE k.args
                        r == handleClientMessage(St, c, FromExtension(extId, Null, res), now)
                    IN /\ Len(r.out) = 1 /\ r.out[1].msg.ok
                       /\ (T \in Nat /\ Owner(claims, T) = Null)
                          => /\ Owner(r.s.claims, T) = k.sessionId
                             /\ \A t \in DOMAIN claims : r.s.claims[t] = claims[t]
                             /\ DOMAIN r.s.claims = DOMAIN claims \cup {T}
                       /\ (T \in Nat /\ Owner(claims, T) # Null) => r.s.claims = claims
                       /\ T \notin Nat => r.s.claims = claims
           /\ k.awaiting = "resolveActiveTab"
              => \A msg \in AnyFromExtension :
                    msg.id = extId
                    => handleClientMessage(St, c, msg, now).s.claims = claims

\* Reached: a get_tabs call whose arguments name an unclaimed tab is pending
\* and a result without tab id claims that tab for the requester.
C24_Witness ==
    \E extId \in DOMAIN extPending :
        /\ BridgeConnected
        /\ ExemptCall(extPending[extId])
        /\ extPending[extId].args \in Nat
        /\ Owner(claims, extPending[extId].args) = Null
        /\ Owner(handleClientMessage(St, host, FromExtension(extId, Null, NoResult), 0).s.claims,
                 extPending[extId].args) = extPending[extId].sessionId

\* ------------------------------------------------------------------- C25
\* Answers to the active-tab lookup that carry no usable tab id: no tabId, or
\* a tabId that is not a number, or 0
Unusable == {NoResult, [tabId |-> 0]}

\* Tool requests for a tab-scoped tool with no numeric tabId in the arguments
NoTabRequests ==
    {Request(id, "tool", o, NoTab, FALSE, tool, NoTab) :
        id \in ReqIds, o \in Sessions \cup {Null},
        tool \in Tools \ {"get_tabs", "get_active_tab"}}

\* C25: a request for a tab-scoped tool without numeric tabId makes the broker
\* ask the bridge for the active tab, and nothing else.  If the answer has no
\* usable tab id, the request fails with the could-not-determine-active-tab
\* error: the tool's call is not written to the bridge, no call is
\* registered and no claim is created.
C25_NoActiveTabFails ==
    \A c \in OpenConns, now \in Clock :
        /\ BridgeConnected
           => \A msg \in NoTabRequests :
                 LET r == handleClientMessage(St, c, msg, now)
                 IN /\ Len(r.out) = 1
                    /\ r.out[1].to = host
                    /\ r.out[1].msg.type = "to_extension"
                    /\ r.out[1].msg.tool = "get_active_tab"
                    /\ r.out[1].msg.id = nextExtId + 1
                    /\ Registered(r.s) = {nextExtId + 1}
                    /\ r.s.extPending[nextExtId + 1].awaiting = "resolveActiveTab"
                    /\ r.s.claims = claims
        /\ \A extId \in DOMAIN extPending : \A res \in Unusable :
              extPending[extId].awaiting = "resolveActiveTab"
              => LET k == extPending[extId]
                     r == handleClientMessage(St, c, FromExtension(extId, Null, res), now)
                 IN /\ Len(r.out) = 1
                    /\ r.out[1].to = k.pluginSocket
                    /\ r.out[1].msg.type = "response"
                    /\ r.out[1].msg.id = k.requestId
                    /\ ~r.out[1].msg.ok
                    /\ r.out[1].msg.error.kind = "Could not determine active tab"
                    /\ DOMAIN r.s.extPending = DOMAIN extPending \ {extId}
                    /\ r.s.nextExtId = nextExtId
                    /\ r.s.claims = claims

\* Reached: a request waits for the active tab, the bridge and the requester
\* are connected, and the answer without tab id fails the request.
C25_Witness ==
    \E extId \in DOMAIN extPending :
        /\ BridgeConnected
        /\ extPending[extId].awaiting = "resolveActiveTab"
        /\ extPending[extId].pluginSocket \in OpenConns
        /\ ~handleClientMessage(St, host, FromExtension(extId, Null, NoResult), 0).out[1].msg.ok

\* ------------------------------------------------------------------- C26
BridgeHellos == {Hello("native-host", o) : o \in Sessions \cup {Null}}

\* Every call the step r writes goes to `socket`.
ForwardsOnlyTo(r, socket) ==
    \A n \in 1..Len(r.out) :
        r.out[n].msg.type = "to_extension" => r.out[n].to = socket

\* The step r writes a call.
Forwards(r) == \E n \in 1..Len(r.out) : r.out[n].msg.type = "to_extension"

\* A bridge handshake makes its sender the host; a step that forwards a call
\* writes it to the host, whose socket is open, and leaves the host as it is.
ForwardedToHost ==
    \A c \in OpenConns, now \in Clock :
        /\ \A h \in BridgeHellos :
              LET s1 == handleClientMessage(St, c, h, now).s
              IN /\ s1.host = c
                 /\ \A d \in OpenConns, a \in Tabs \cup {NoTab} :
                       ForwardsOnlyTo(
                           handleClientMessage(s1, d,
                               Request(1, "tool", Null, NoTab, FALSE, "click", a), now), c)
        /\ \A msg \in AnyToolRequest \cup ExemptRequests \cup AnyFromExtension :
              LET r == handleClientMessage(St, c, msg, now)
              IN Forwards(r)
                 => /\ host \in OpenConns
                    /\ ForwardsOnlyTo(r, host)
                    /\ r.s.host = host

\* The host changes only when a connection sends a bridge handshake, to that
\* connection, and when the host's own connection closes, to none.
HostSetByHandshakeOnly ==
    host' # host
    => \/ /\ host' \in OpenConns
          /\ \E h \in BridgeHellos :
                LET s1 == handleClientMessage(St, host', h, 0).s
                IN clients' = s1.clients /\ host' = s1.host
       \/ /\ host \in Conns
          /\ host' \notin Conns
          /\ clients'[host].status = "closed"

\* C26: the broker holds one bridge reference; it is the connection that sent
\* the latest bridge handshake, until that connection closes, and every call
\* forwarded is written to that connection and to no other.
C26_OneAuthoritativeBridge ==
    /\ []ForwardedToHost
    /\ [][HostSetByHandshakeOnly]_vars

\* Reached: two connections have handshaken as bridge and both are open; a
\* call goes to the one that did so last.
C26_Witness ==
    \E c \in OpenConns, d \in OpenConns :
        /\ BridgeConnected
        /\ c # host /\ clients[c].role = "native-host"
        /\ clients[d].sessionId # Null /\ clients[d].role # "native-host"
        /\ LET r == handleClientMessage(St, d,
                        Request(1, "tool", Null, NoTab, FALSE, "click", 1), 0)
           IN Forwards(r) /\ ForwardsOnlyTo(r, host)

OtherHellos ==
    {Hello(role, o) : role \in {"plugin", Null}, o \in Sessions \cup {Null}}

\* The list holds one item per entry of the table cl, with the entry's owner
\* and time, and nothing else.
Snapshot(list, cl) ==
    /\ Len(list) = Cardinality(DOMAIN cl)
    /\ \A t \in DOMAIN cl :
          \E n \in 1..Len(list) :
              /\ list[n].tabId = t
              /\ list[n].sessionId = cl[t].sessionId
              /\ list[n].claimedAt = cl[t].claimedAt

NoHostReady(out) == \A n \in 1..Len(out) : out[n].msg.type # "host_ready"

\* C28: a bridge handshake makes the broker write one host_ready, to the
\* connection that sent the handshake, with the Ownership Table as it is at
\* that moment; nothing else writes a host_ready: no other hello, no request,
\* no bridge response, no timer, no close.
C28_HostReadyOncePerHandshake ==
    /\ \A c \in OpenConns, now \in Clock :
          /\ \A h \in BridgeHellos :
                LET r == handleClientMessage(St, c, h, now)
                IN /\ Len(r.out) = 1
                   /\ r.out[1].to = c
                   /\ r.out[1].msg.type = "host_ready"
                   /\ Snapshot(r.out[1].msg.claims, claims)
          /\ \A msg \in OtherHellos \cup Requests(TwoSessions, St, c) \cup AnyFromExtension :
                NoHostReady(handleClientMessage(St, c, msg, now).out)
    /\ \A c \in Conns : clients[c].status # "closed" => NoHostReady(closeHandler(St, c).out)
    /\ \A extId \in DOMAIN extPending : NoHostReady(timeoutHandler(St, extId).out)

\* Reached: both tabs are claimed, by two sessions, when a connection
\* handshakes as bridge and is sent the two claims.
C28_Witness ==
    \E c \in OpenConns :
        /\ Cardinality({claims[t].sessionId : t \in DOMAIN claims}) = 2
        /\ LET r == handleClientMessage(St, c, Hello("native-host", Null), 0)
           IN r.out[1].to = c /\ Len(r.out[1].msg.claims) = 2

\* ------------------------------------------------------------------- C29
\* Every identifier in the table has been handed out: it is at most the counter.
IdsWithinCounter == \A extId \in DOMAIN extPending : extId \in 1..nextExtId

\* The counter never goes down; the calls a step registers take the
\* identifiers above the old counter up to the new one, each one once; the
\* calls that stay keep their identifier.
IdsAllocatedUpwards ==
    /\ nextExtId' >= nextExtId
    /\ DOMAIN extPending' \ DOMAIN extPending = (nextExtId + 1)..nextExtId'
    /\ \A extId \in DOMAIN extPending' \cap DOMAIN extPending :
          /\ extPending'[extId].requestId = extPending[extId].requestId
          /\ extPending'[extId].sessionId = extPending[extId].sessionId
          /\ extPending'[extId].tool = extPending[extId].tool
          /\ extPending'[extId].awaiting = extPending[extId].awaiting

\* C29: call identifiers are handed out in strictly increasing order and
\* never again: every identifier in the Pending-Call Table is at most the
\* counter, a new call gets an identifier above every one handed out before,
\* and an entry is never replaced by another call under the same identifier.
C29_CallIdsIncreaseNeverReused ==
    /\ []IdsWithinCounter
    /\ [][IdsAllocatedUpwards]_vars

\* Reached: the first call has left the table and the second is pending under
\* the next identifier.
C29_Witness ==
    /\ nextExtId = 2
    /\ DOMAIN extPending = {2}
    /\ BridgeConnected

\* ------------------------------------------------------------------- C30
\* Every hello a connection can send
AnyHello ==
    {Hello(role, o) : role \in {"native-host", "plugin", Null}, o \in Sessions \cup {Null}}

\* The connection has sent a handshake that gave it a role or a session.
Handshaken(c) == clients[c].role # "unknown" \/ clients[c].sessionId # Null

\* C30: a connection starts with no role and no session identifier; only a
\* handshake gives it a role; and once it has sent a handshake, no message it
\* sends later changes its session identifier.
C30_SessionIdSetOnce ==
    /\ \A c \in Conns \ OpenConns :
          LET client == connectionListener(St, c).clients[c]
          IN client.role = "unknown" /\ client.sessionId = Null
    /\ \A c \in OpenConns, now \in Clock :
          /\ \A msg \in AnyToolRequest \cup AnyFromExtension :
                handleClientMessage(St, c, msg, now).s.clients[c] = clients[c]
          /\ Handshaken(c)
             => \A h \in AnyHello :
                   handleClientMessage(St, c, h, now).s.clients[c].sessionId
                       = clients[c].sessionId

\* ------------------------------------------------------------------- C31
\* c is a session's connection: it has a session identifier, and is neither
\* a bridge nor the connection the bridge reference points to.
SessionConn(c) ==
    /\ clients[c].status # "closed"
    /\ clients[c].sessionId # Null
    /\ clients[c].role # "native-host"
    /\ host # c

\* C31: the close of a session connection with identifier S removes the
\* claims of S and nothing else: the claims of other identifiers, the bridge
\* reference, the call counter, the other connections and every entry of the
\* Pending-Call Table, also those of calls S had in flight, stay as they
\* are, and nothing is written.  (An entry of the closed connection now
\* refers to a closed socket.)
C31_SessionCloseTouchesOnlyItsClaims ==
    \A c \in Conns :
        SessionConn(c)
        => LET S == clients[c].sessionId
               r == closeHandler(St, c)
           IN /\ DOMAIN r.s.claims = {t \in DOMAIN claims : claims[t].sessionId # S}
              /\ \A t \in DOMAIN r.s.claims : r.s.claims[t] = claims[t]
              /\ r.s.host = host
              /\ r.s.nextExtId = nextExtId
              /\ DOMAIN r.s.extPending = DOMAIN extPending
              /\ \A extId \in DOMAIN extPending :
                    /\ r.s.extPending[extId].requestId = extPending[extId].requestId
                    /\ r.s.extPending[extId].sessionId = extPending[extId].sessionId
                    /\ r.s.extPending[extId].awaiting = extPending[extId].awaiting
                    /\ r.s.extPending[extId].tool = extPending[extId].tool
                    /\ r.s.extPending[extId].args = extPending[extId].args
                    /\ r.s.extPending[extId].tabId = extPending[extId].tabId
                    /\ extPending[extId].pluginSocket # c
                       => r.s.extPending[extId].pluginSocket = extPending[extId].pluginSocket
              /\ \A d \in Conns \ {c} : r.s.clients[d] = clients[d]
              /\ r.out = <<>>

\* Reached: a session that owns a tab and has a call in flight is about to
\* close, while another session owns the other tab and the bridge is there.
C31_Witness ==
    \E c \in Conns, T \in Tabs, U \in Tabs, extId \in DOMAIN extPending :
        /\ SessionConn(c)
        /\ BridgeConnected
        /\ Owner(claims, T) = clients[c].sessionId
        /\ Owner(claims, U) \notin {Null, clients[c].sessionId}
        /\ extPending[extId].pluginSocket = c
        /\ Owner(closeHandler(St, c).s.claims, T) = Null

\* ------------------------------------------------------------------- C32
IsCall(w) == w.msg.type = "to_extension"
Calls(out) == SelectSeq(out, IsCall)

\* The step r wrote one call for request `requestId` of connection c, to the
\* bridge, under an id above every id given out before, and has not answered c.
WroteCallFor(r, c, requestId, tool) ==
    /\ Len(Calls(r.out)) = 1
    /\ Responses(r.out) = <<>>
    /\ LET w == Calls(r.out)[1]
       IN /\ w.to = host
          /\ w.msg.id = nextExtId + 1
          /\ Registered(r.s) = {w.msg.id}
          /\ r.s.extPending[w.msg.id].requestId = requestId
          /\ r.s.extPending[w.msg.id].pluginSocket = c
          /\ r.s.extPending[w.msg.id].tool = tool
          /\ \/ w.msg.tool = tool /\ r.s.extPending[w.msg.id].awaiting = "callExtension"
             \/ /\ w.msg.tool = "get_active_tab"
                /\ r.s.extPending[w.msg.id].awaiting = "resolveActiveTab"

\* The step r ended request `requestId` of connection c: it wrote its one
\* response and no call, and no call of the request is left.
Answered(r, c, requestId) ==
    /\ Calls(r.out) = <<>>
    /\ Registered(r.s) = {}
    /\ Len(r.out) = 1 /\ r.out[1].to = c
    /\ r.out[1].msg.type = "response" /\ r.out[1].msg.id = requestId

\* C32: a session that sends a tool request only after the response to the
\* one before has at most one call pending.  Each of its requests either is
\* answered at once or writes one call to the bridge under the next call id;
\* the response to the active-tab lookup either ends the request or writes the
\* tool's own call, again under the next call id; and the session is answered
\* only by the step that ends the request.  So the calls of its requests reach
\* the bridge in the order of the requests, in every state the other
\* connections can bring about.
C32_SequentialRequestsForwardedInOrder ==
    \A c \in OpenConns :
        LET S == clients[c].sessionId
            mine == {id \in DOMAIN extPending : extPending[id].sessionId = S}
        IN S # Null
           => /\ Cardinality(mine) <= 1
              /\ mine = {}
                 => \A msg \in AnyToolRequest :
                       msg.sessionId = Null
                       => LET r == handleClientMessage(St, c, msg, 0)
                          IN \/ WroteCallFor(r, c, msg.id, msg.tool)
                             \/ Answered(r, c, msg.id)
              /\ \A id \in mine, d \in OpenConns, msg \in AnyFromExtension :
                    (msg.id = id /\ extPending[id].pluginSocket = c)
                    => LET k == extPending[id]
                           r == handleClientMessage(St, d, msg, 0)
                       IN /\ id \notin DOMAIN r.s.extPending
                          /\ \/ Answered(r, c, k.requestId)
                             \/ /\ k.awaiting = "resolveActiveTab"
                                /\ WroteCallFor(r, c, k.requestId, k.tool)
                                /\ Calls(r.out)[1].msg.tool = k.tool
                                /\ Calls(r.out)[1].msg.id > id
              /\ \A id \in mine :
                    extPending[id].pluginSocket = c
                    => Answered(timeoutHandler(St, id), c, extPending[id].requestId)

\* Reached: a session waits for the active tab after the other session has
\* claimed a tab; the lookup's response then makes the broker write the
\* session's tool call under the next call id.
C32_Witness ==
    \E i \in DOMAIN extPending, T \in Tabs, U \in Tabs :
        /\ BridgeConnected
        /\ extPending[i].awaiting = "resolveActiveTab"
        /\ extPending[i].pluginSocket \in OpenConns
        /\ Owner(claims, U) \notin {Null, extPending[i].sessionId}
        /\ LET r == handleClientMessage(St, host, FromExtension(i, Null, [tabId |-> T]), 0)
           IN /\ Len(Calls(r.out)) = 1
              /\ Calls(r.out)[1].msg.id = i + 1

\* ------------------------------------------------------------------- C33
\* C33: when no connection carries a session's identifier any more, the
\* bridge's response to a call the session left in flight gives that
\* identifier no claim it does not hold already.
C33_NoClaimForDepartedSession ==
    \A id \in DOMAIN extPending, d \in OpenConns, msg \in AnyFromExtension :
        (msg.id = id /\ Gone(extPending[id].sessionId))
        => LET r == handleClientMessage(St, d, msg, 0)
           IN \A T \in Tabs :
                 Owner(r.s.claims, T) = extPending[id].sessionId
                 => Owner(claims, T) = extPending[id].sessionId

\* ------------------------------------------------------------------- C34
\* C34: a from_extension tool_response that arrives on a connection other
\* than the one the bridge reference points to (a session's connection, one
\* that has not said hello, a bridge that was replaced) leaves the
\* Pending-Call Table as it is and makes the broker write nothing.
C34_OnlyHostCompletesCalls ==
    \A d \in OpenConns, msg \in AnyFromExtension :
        d # host
        => LET r == handleClientMessage(St, d, msg, 0)
           IN r.s.extPending = extPending /\ r.out = <<>>

\* ------------------------------------------------------------------- C35
\* C35: whenever the Pending-Call Table holds an entry the bridge reference
\* is set.  A request registers a call only while the bridge is connected,
\* and a close that clears the bridge reference leaves the table empty.
C35_PendingImpliesHost ==
    /\ extPending # Empty => host # Null
    /\ \A c \in Conns :
          clients[c].status # "closed"
          => LET r == closeHandler(St, c)
             IN r.s.host = Null => r.s.extPending = Empty
    /\ \A c \in OpenConns, msg \in AnyToolRequest :
          ~BridgeConnected => Registered(handleClientMessage(St, c, msg, 0).s) = {}

\* Reached: calls are pending, the bridge's socket is destroyed, and its
\* close is about to clear the reference.
C35_Witness ==
    /\ extPending # Empty
    /\ host \in Conns
    /\ clients[host].status = "destroyed"
    /\ closeHandler(St, host).s.host = Null

C37_NoSuccessOnForeignTab ==
    \A id \in DOMAIN extPending, res \in Results :
        (/\ BridgeConnected
         /\ TabCall(extPending[id])
         /\ res.tabId \in Nat
         /\ res.tabId # extPending[id].tabId
         /\ Owner(claims, res.tabId) \notin {Null, extPending[id].sessionId})
        => LET r == handleClientMessage(St, host, FromExtension(id, Null, res), 0)
           IN \A n \in 1..Len(r.out) :
                 r.out[n].msg.type = "response" => ~r.out[n].msg.ok

\* ------------------------------------------------------------------- C38
\* c said hello as a bridge and a later handshake took the bridge reference
\* away from it.
ReplacedBridge(c) ==
    /\ clients[c].status # "closed"
    /\ clients[c].role = "native-host"
    /\ host # c

\* C38: the close of a replaced bridge leaves the bridge reference, the call
\* counter and the Pending-Call Table as they are and fails no call; every
\* call that was pending is still removed by a response with its id and by
\* its deadline.
C38_ReplacedBridgeCloseKeepsCalls ==
    \A c \in Conns :
        ReplacedBridge(c)
        => LET r == closeHandler(St, c)
           IN /\ r.s.host = host
              /\ r.s.nextExtId = nextExtId
              /\ r.s.extPending = extPending
              /\ r.out = <<>>
              /\ \A id \in DOMAIN extPending :
                    /\ id \notin DOMAIN timeoutHandler(r.s, id).s.extPending
                    /\ \A d \in OpenConns \ {c}, res \in Results :
                          id \notin DOMAIN handleClientMessage(
                                               r.s, d, FromExtension(id, Null, res), 0).s.extPending

\* Reached: a replaced bridge closes while another bridge is connected and
\* calls are pending.
C38_Witness ==
    \E c \in Conns :
        /\ ReplacedBridge(c)
        /\ host \in OpenConns
        /\ extPending # Empty
        /\ closeHandler(St, c).s.clients[c].status = "closed"

\* ------------------------------------------------------------------- C39
\* C39: a request of a connection whose hello gave the identifier H acts as
\* the session named by its own sessionId field o when it has one, and as H
\* otherwise.  claim_tab records the claim under that identity; release_tab
\* and a tab-scoped tool are refused on a tab owned by somebody else and
\* accepted on a tab that identity owns; a forwarded call carries the
\* identity, and its success claims the tab for it.  The close of the
\* connection removes the claims of H alone: a claim made under o is removed
\* by the close exactly when o is H or absent.
C39_RequestIdentity ==
    \A c \in OpenConns, o \in Sessions \cup {Null}, T \in Tabs :
        LET H == clients[c].sessionId
            I == IF o # Null THEN o ELSE H
            claim == handleClientMessage(
                         St, c, Request(1, "claim_tab", o, T, TRUE, Null, NoTab), 0)
            release == handleClientMessage(
                           St, c, Request(1, "release_tab", o, T, FALSE, Null, NoTab), 0)
            tool == handleClientMessage(
                        St, c, Request(1, "tool", o, NoTab, FALSE, "click", T), 0)
        IN H # Null
           => /\ Owner(claim.s.claims, T) = I
              /\ Owner(closeHandler(claim.s, c).s.claims, T) = (IF I = H THEN Null ELSE I)
              /\ OneResponse(release, c, Request(1, "release_tab", o, T, FALSE, Null, NoTab))
              /\ Owner(claims, T) = I
                 => release.out[1].msg.ok /\ Owner(release.s.claims, T) = Null
              /\ Owner(claims, T) \notin {Null, I}
                 => /\ Conflict(release, T, Owner(claims, T))
                    /\ release.s.claims = claims
                    /\ Len(tool.out) = 1
                    /\ Conflict(tool, T, Owner(claims, T))
              /\ (Owner(claims, T) \in {Null, I} /\ BridgeConnected)
                 => /\ Registered(tool.s) = {nextExtId + 1}
                    /\ tool.s.extPending[nextExtId + 1].sessionId = I
                    /\ Owner(claims, T) = Null
                       => Owner(handleClientMessage(
                                    tool.s, host,
                                    FromExtension(nextExtId + 1, Null, [tabId |-> T]), 0).s.claims,
                                T) = I

\* Reached: a session's connection is open and a tab is unclaimed; a
\* claim_tab naming another session claims the tab for that session, and the
\* claim is still there after the connection has closed.
C39_Witness ==
    \E c \in OpenConns, o \in Sessions, T \in Tabs :
        /\ clients[c].sessionId \notin {Null, o}
        /\ Owner(claims, T) = Null
        /\ LET r == handleClientMessage(
                        St, c, Request(1, "claim_tab", o, T, FALSE, Null, NoTab), 0)
           IN /\ Owner(r.s.claims, T) = o
              /\ Owner(closeHandler(r.s, c).s.claims, T) = o
====
